---- MODULE Spec2Model ----
(***************************************************************************)
(* Resolution-and-caching engine of nostr-deploy-server.                   *)
(*                                                                         *)
(*   CacheService (src/src/utils/cache.ts)       namespaced Keyv caches    *)
(*   NostrHelper  (src/src/helpers/nostr.ts)     the resolver (read path)  *)
(*   CacheInvalidationService (src/unnamed/part_003)  the subscriber       *)
(*                                                                         *)
(* Every `await` of an async function is a point where another callback    *)
(* may run, so each resolver call is a process whose steps are the code    *)
(* between two awaits that touch shared state (a cache, a relay query).    *)
(* Time is counted in ticks; the TTLs are configuration values, scaled to  *)
(* a few ticks.                                                            *)
(***************************************************************************)
EXTENDS Naturals, Sequences, FiniteSets, TLC

VARIABLES
  now,                \* Date.now(), in ticks
  slidingExpiration,  \* config.slidingExpiration
  caches,             \* the seven Keyv namespaces of AdvancedCacheManager.getCaches
  published,          \* mapping events (kind 34128) the relays hold
  relayLists,         \* relay-list events (kind 10002) the relays hold
  serverLists,        \* server-list events (kind 10063) the relays hold
  calls,              \* the resolver / CacheService calls in flight, one per caller
  mem,                \* MemoryCache.cache: the Map's entries in insertion order
  mgr,                \* AdvancedCacheManager: cachePath, store, initialized
  pool,               \* NostrHelper: connections, cleanupInterval, the pool.close calls
  query,              \* one queryRelays call: its relays, events, counters and timers
  sub,                \* CacheInvalidationService: flags, tables, timers, initialize calls
  fetch,              \* BlossomHelper: one fetchFile call and the requests it has made
  req                 \* the request handler: one request on its way through the pipeline

vars == <<now, slidingExpiration, caches, published, relayLists, serverLists, calls,
          mem, mgr, pool, query, sub, fetch, req>>

(* the state of the resolution-and-caching engine but the clock, and the    *)
(* state of the components specified apart from it                           *)
engine == <<slidingExpiration, caches, published, relayLists, serverLists, calls>>
components == <<mem, mgr, pool, query, sub, fetch, req>>

-----------------------------------------------------------------------------
(* Bounds of the model *)

MaxTime == 3          \* the clock stops here
MaxPublished == 1     \* mapping events published to the relays in one run
MaxPopulated == 1     \* namespaces the callers of CacheService populate in one run

MaxSize == 2          \* config.maxCacheSize: entries a MemoryCache holds
CacheTtl == 1         \* config.cacheTtlSeconds, in ticks: MemoryCache.defaultTtl

MaxReconnects == 4         \* reconnects the subscriber schedules in one run
MaxEvents == 2             \* events the relays send to one query
WsConnectionTimeout == 1   \* config.wsConnectionTimeoutMs, in ticks

(* Configuration values, in ticks *)
CacheTime == 2              \* config.cacheTime: default TTL of a namespace
FileContentCacheTtl == 1    \* config.fileContentCacheTtlMs
NegativeCacheTtl == 1       \* config.negativeCacheTtlMs

(* Event kinds *)
MAPPING_KIND == 34128
RELAY_LIST_KIND == 10002
SERVER_LIST_KIND == 10063

Callers == {"c1", "c2"}    \* the callers of the concurrent specifications
Pubkeys == {"p1"}
Paths == {"/index.html", "/404.html"}
NotFoundPath == "/404.html"
DefaultRelays == <<"wss://d1">>
DefaultBlossomServers == <<"https://b0">>

-----------------------------------------------------------------------------
(* Events.  tags is an ordered array of tags, each an array of strings.    *)

Ev(pk, kind, created, tags) ==
  [pubkey |-> pk, kind |-> kind, created_at |-> created, tags |-> tags]

MappingEvents ==
  { Ev("p1", MAPPING_KIND, 1, << <<"d", "/index.html">>, <<"x", "h1">> >>),
    Ev("p1", MAPPING_KIND, 2, << <<"d", "/index.html">>, <<"x", "h2">> >>),
    Ev("p1", MAPPING_KIND, 1, << <<"x", "h3">>, <<"d", "/404.html">> >>),
    Ev("p1", MAPPING_KIND, 2, << <<"d", "/index.html">> >>),
    Ev("p1", MAPPING_KIND, 2, << <<"d", "/404.html">>, <<"x", "">>, <<"x", "h2">> >>),
    Ev("p1", MAPPING_KIND, 1, << <<"x", "h1">> >>),
    Ev("p1", MAPPING_KIND, 1, << <<"d", "">>, <<"x", "h1">> >>),
    Ev("p1", MAPPING_KIND, 1, << <<"d">>, <<"x", "h1">>, <<"d", "/index.html">>, <<"d", "/404.html">> >>) }

RelayListEvents ==
  { Ev("p1", RELAY_LIST_KIND, 1,
       << <<"r", "wss://u1", "read">>, <<"r", "wss://u2">>, <<"r", "wss://u3", "write">> >>),
    Ev("p1", RELAY_LIST_KIND, 1, << <<"r", "wss://d1">> >>),
    Ev("p1", RELAY_LIST_KIND, 1, << <<"r", "wss://u3", "write">>, <<"p", "wss://u1">> >>),
    Ev("p1", RELAY_LIST_KIND, 1,
       << <<"r", "", "read">>, <<"r">>, <<"r", "wss://u2", "">>, <<"server", "wss://u1">>,
          <<"r", "wss://u1", "read">>, <<"r", "wss://u2", "other">> >>),
    Ev("p1", RELAY_LIST_KIND, 1, << >>) }

ServerListEvents ==
  { Ev("p1", SERVER_LIST_KIND, 1,
       << <<"server", "https://b1">>, <<"r", "https://b9">>, <<"server", "https://b2">> >>),
    Ev("p1", SERVER_LIST_KIND, 1, << <<"server", "">>, <<"server">>, <<"r", "wss://u1">> >>),
    Ev("p1", SERVER_LIST_KIND, 1, << >>) }

(* tag[i] of a JavaScript array: undefined (here "") past the end; an empty *)
(* string and undefined are both falsy, which is all the code asks of them. *)
TagAt(tag, i) == IF i <= Len(tag) THEN tag[i] ELSE ""

-----------------------------------------------------------------------------
(* Keyv: one namespace is a map key -> [value, expires].  An entry also     *)
(* carries history fields the code does not have: putAt (when a setter put  *)
(* the value; a TTL refresh keeps it), by (who wrote the                     *)
(* value: "IS" the subscriber, "RV" a resolver) and lost (the subscriber     *)
(* write this value was written over, by a call that never saw that write:   *)
(* << >> none, <<x>> an upsert of hash x, <<"">> a delete).                  *)

KeyvLive(cache, key) == key \in DOMAIN cache /\ ~(now > cache[key].expires)

(* cache.get(key): the entry as a 0/1-element sequence *)
KeyvGet(cache, key) == IF KeyvLive(cache, key) THEN <<cache[key]>> ELSE << >>

KeyvDelete(cache, key) == [k \in DOMAIN cache \ {key} |-> cache[k]]

(* the store after cache.get(key): an expired entry is deleted on read *)
KeyvAfterGet(cache, key) ==
  IF key \in DOMAIN cache /\ now > cache[key].expires THEN KeyvDelete(cache, key) ELSE cache

(* cache.set(key, value, ttl) *)
KeyvSet(cache, key, value, ttl, by, lost, putAt) ==
  [k \in DOMAIN cache \cup {key} |->
     IF k = key THEN [value |-> value, expires |-> now + ttl, by |-> by, lost |-> lost,
                      putAt |-> putAt]
                ELSE cache[k]]

EmptyCache == [k \in {} |-> [value |-> << >>, expires |-> 0, by |-> "", lost |-> << >>, putAt |-> 0]]

Namespaces == {"domains", "servers", "relays", "paths", "blobs", "content", "negative"}

(* createCache(namespace, ttl): the namespace's default TTL *)
DefaultTtl(ns) ==
  CASE ns = "content" -> FileContentCacheTtl
    [] ns = "negative" -> NegativeCacheTtl
    [] OTHER -> CacheTime

-----------------------------------------------------------------------------
(* CacheService *)

PathKey(pubkey, path) == pubkey \o path
NegativeKey(pubkey, path) == "mapping:" \o pubkey \o ":" \o path

(* getWithSlidingExpiration, after its first await: the value read *)
GwseValue(cs, ns, key) == KeyvGet(cs[ns], key)

(* a refresh that always uses config.cacheTime *)
GwseRefreshCacheTime(cs, ns, key, entry, customTtl, lost) ==
  [cs EXCEPT ![ns] = KeyvSet(@, key, entry.value, CacheTime, entry.by, lost, entry.putAt)]

(* getWithSlidingExpiration, second await: cache.set(key, value, ttlMs);   *)
(* customTtl = 0 stands for an omitted customTtlSeconds                     *)
GwseRefresh(cs, ns, key, entry, customTtl, lost) ==
  [cs EXCEPT ![ns] = KeyvSet(@, key, entry.value,
                             IF customTtl # 0 THEN customTtl ELSE CacheTime,
                             entry.by, lost, entry.putAt)]

(* a getter that refreshes every value it finds *)
GwseRefreshesAlways(value, refreshTtl) == value # << >>

(* whether getWithSlidingExpiration goes on to refresh: value && refreshTtl *)
GwseRefreshes(value, refreshTtl) == value # << >> /\ refreshTtl

SetBlobForPath(cs, pubkey, path, event, by, lost) ==
  [cs EXCEPT !.paths = KeyvSet(@, PathKey(pubkey, path), event, DefaultTtl("paths"), by, lost, now)]

InvalidateBlobForPath(cs, pubkey, path) ==
  [cs EXCEPT !.paths = KeyvDelete(@, PathKey(pubkey, path))]

SetRelaysForPubkey(cs, pubkey, relays, by) ==
  [cs EXCEPT !.relays = KeyvSet(@, pubkey, relays, DefaultTtl("relays"), by, << >>, now)]

SetBlossomServersForPubkey(cs, pubkey, servers, by) ==
  [cs EXCEPT !.servers = KeyvSet(@, pubkey, servers, DefaultTtl("servers"), by, << >>, now)]

SetNegativeCache(cs, key) ==
  [cs EXCEPT !.negative = KeyvSet(@, key, TRUE, DefaultTtl("negative"), "RV", << >>, now)]

(* an isNegativeCached that never finds a mark *)
IsNeverNegativeCached(cs, key) == FALSE

(* isNegativeCached(key): (await negativeCache.get(key)) || false *)
IsNegativeCached(cs, key) == KeyvGet(cs.negative, key) # << >>

-----------------------------------------------------------------------------
(* CacheService called directly: the getters getPubkeyForDomain,            *)
(* getBlossomServersForPubkey, getRelaysForPubkey, getBlobForPath,           *)
(* getBlobURLs and getFileContent go through getWithSlidingExpiration with   *)
(* config.slidingExpiration; isNegativeCached is a plain cache.get.  The     *)
(* setters are one cache.set with the namespace's TTL.                       *)

CacheKeys == {"k"}

(* the refreshTtl argument the getter of the namespace passes *)
RefreshTtl(ns) == IF ns = "negative" THEN FALSE ELSE slidingExpiration

(* the customTtlSeconds argument: only getFileContent passes one; 0 = none *)
CustomTtl(ns) == IF ns = "content" THEN FileContentCacheTtl ELSE 0

Populated(cs) == {ns \in Namespaces : DOMAIN cs[ns] # {}}

(* setPubkeyForDomain, setBlossomServersForPubkey, setRelaysForPubkey,      *)
(* setBlobURLs, setFileContent, setNegativeCache: cache.set(key, value)      *)
CacheSet(ns, key) ==
  /\ Cardinality(Populated(caches) \cup {ns}) <= MaxPopulated
  /\ caches' = [caches EXCEPT ![ns] = KeyvSet(@, key, "v", DefaultTtl(ns), "", << >>, now)]
  /\ UNCHANGED <<components, now, slidingExpiration, published, relayLists, serverLists, calls>>

-----------------------------------------------------------------------------
(* Tag parsing, as the loops of the resolver and of the subscriber do it    *)

(* for (const tag of tags) if (tag[0] === name && tag[1]) { v = tag[1]; break } *)
(* "" stands for null: no such tag                                           *)
RECURSIVE FirstTagValue(_, _)
FirstTagValue(tags, name) ==
  IF tags = << >> THEN ""
  ELSE IF TagAt(Head(tags), 1) = name /\ TagAt(Head(tags), 2) # ""
       THEN TagAt(Head(tags), 2)
       ELSE FirstTagValue(Tail(tags), name)

(* a loop that pushes the URL of every r tag, whatever its marker *)
IsAnyRelayTag(tag) == TagAt(tag, 1) = "r" /\ TagAt(tag, 2) # ""

(* whether the relay-list loop pushes this tag's URL *)
IsReadRelayTag(tag) ==
  /\ TagAt(tag, 1) = "r" /\ TagAt(tag, 2) # ""
  /\ (TagAt(tag, 3) = "" \/ TagAt(tag, 3) = "read")

RECURSIVE ParseRelayTags(_)
ParseRelayTags(tags) ==
  IF tags = << >> THEN << >>
  ELSE (IF IsReadRelayTag(Head(tags)) THEN <<TagAt(Head(tags), 2)>> ELSE << >>)
       \o ParseRelayTags(Tail(tags))

(* whether the server-list loop pushes this tag's URL *)
IsServerTag(tag) == TagAt(tag, 1) = "server" /\ TagAt(tag, 2) # ""

RECURSIVE ParseServerTags(_)
ParseServerTags(tags) ==
  IF tags = << >> THEN << >>
  ELSE (IF IsServerTag(Head(tags)) THEN <<TagAt(Head(tags), 2)>> ELSE << >>)
       \o ParseServerTags(Tail(tags))

(* userRelays.length > 0 ? userRelays : config.defaultRelays *)
FinalRelays(tags) ==
  IF Len(ParseRelayTags(tags)) > 0 THEN ParseRelayTags(tags) ELSE DefaultRelays

(* a server list that is cached as parsed, empty or not *)
FinalServersNoDefault(tags) == ParseServerTags(tags)

(* servers.length > 0 ? servers : config.defaultBlossomServers *)
FinalServers(tags) ==
  IF Len(ParseServerTags(tags)) > 0 THEN ParseServerTags(tags) ELSE DefaultBlossomServers

(* a ParsedEvent whose path is read from the event's d tag *)
ParsedEventTaggedPath(event, path, sha256) ==
  [pubkey |-> event.pubkey, path |-> FirstTagValue(event.tags, "d"), sha256 |-> sha256,
   created_at |-> event.created_at]

(* the ParsedEvent both writers of the paths cache build *)
ParsedEvent(event, path, sha256) ==
  [pubkey |-> event.pubkey, path |-> path, sha256 |-> sha256, created_at |-> event.created_at]

-----------------------------------------------------------------------------
(* Relay queries.  queryRelays resolves with the events collected so far:   *)
(* none (no relay answered in time, or none holds a match) or events the    *)
(* relays hold that match the filter.  The callers read events[0] only.     *)

HasTagValue(event, name, value) ==
  \E i \in 1..Len(event.tags) :
    TagAt(event.tags[i], 1) = name /\ TagAt(event.tags[i], 2) = value

(* filter {authors: [pubkey], kinds: [34128], '#d': [path], limit: 1} *)
MatchesMapping(event, pubkey, path) ==
  event.pubkey = pubkey /\ event.kind = MAPPING_KIND /\ HasTagValue(event, "d", path)

QueryResults(held) == { << >> } \cup { <<e>> : e \in held }

(* config.defaultRelays.filter(r => !userRelays.includes(r)), appended *)
AllRelaysCombined(userRelays) ==
  userRelays \o SelectSeq(DefaultRelays,
                          LAMBDA r : ~(\E i \in 1..Len(userRelays) : userRelays[i] = r))

-----------------------------------------------------------------------------
(* Calls.  A caller runs one async call at a time; pc is the await it is at. *)
(* cached, pending and userRelays are the call's locals.  The other fields   *)
(* record history for the properties: reqPath (the path the call was made    *)
(* with), mq / rq (mapping and list queries issued), fb (fallbacks taken),   *)
(* atStart / negAtStart (what the paths and negative caches held for the     *)
(* requested path at the call's first read), t0 (start time), follows (the   *)
(* start time of the caller's previous call, when this call repeats it),     *)
(* pre (the subscriber's last write of this call's paths key since the call  *)
(* read it: << >> none, <<x>> an upsert of hash x, <<"">> a delete), early    *)
(* (the subscriber wrote that key after the call was made and before its     *)
(* first read), found (what the call's list query returned).                  *)

IdleCall ==
  [op |-> "idle", pc |-> "idle", pubkey |-> "", path |-> "", ns |-> "", key |-> "",
   cached |-> << >>, pending |-> << >>, userRelays |-> << >>, result |-> << >>,
   reqPath |-> "", mq |-> 0, rq |-> 0, fb |-> 0, atStart |-> << >>, negAtStart |-> FALSE,
   t0 |-> 0, follows |-> << >>, pre |-> << >>, early |-> FALSE,
   found |-> << >>]

Free(c) == calls[c].pc \in {"idle", "done"}

(* a call begins on caller c with record rec *)
(* history: rec repeats the caller's previous call, which found nothing in  *)
(* the caches, queried the relays and returned null                          *)
Repeats(prev, rec) ==
  /\ prev.pc = "done" /\ prev.op = "getStaticFileMapping" /\ rec.op = prev.op
  /\ rec.pubkey = prev.pubkey /\ rec.reqPath = prev.reqPath
  /\ prev.result = << >> /\ prev.mq >= 1
  /\ prev.atStart = << >> /\ ~prev.negAtStart

Begin(c, rec) ==
  calls' = [calls EXCEPT ![c] =
              [rec EXCEPT !.t0 = now,
                          !.follows = IF Repeats(calls[c], rec) THEN <<calls[c].t0>>
                                      ELSE << >>]]

(* the call of caller c returns result; its locals go away *)
Return(call, result) ==
  [call EXCEPT !.pc = "done", !.result = result,
               !.cached = << >>, !.pending = << >>, !.userRelays = << >>]

(* getRelayList returns relays to whoever awaited it *)
ReturnRelays(call, relays) ==
  CASE call.op = "getRelayList" -> Return(call, relays)
    [] call.op = "getStaticFileMapping" ->
         [call EXCEPT !.pc = "m_q1", !.userRelays = relays, !.cached = << >>,
                      !.pending = << >>, !.found = << >>]
    [] OTHER ->
         [call EXCEPT !.pc = "s_query", !.userRelays = relays, !.cached = << >>,
                      !.pending = << >>, !.found = << >>]

-----------------------------------------------------------------------------
(* A direct call of a CacheService getter *)

StartCacheGet(c, ns, key) ==
  /\ Free(c)
  /\ Begin(c, [IdleCall EXCEPT !.op = "get", !.pc = "g_get", !.ns = ns, !.key = key])
  /\ UNCHANGED <<components, now, slidingExpiration, caches, published, relayLists, serverLists>>

(* const value = await cache.get(key) *)
CacheGet(c) ==
  /\ calls[c].pc = "g_get"
  /\ LET call == calls[c]
         v == GwseValue(caches, call.ns, call.key)
     IN /\ caches' = [caches EXCEPT ![call.ns] = KeyvAfterGet(@, call.key)]
        /\ calls' = [calls EXCEPT ![c] =
             IF GwseRefreshes(v, RefreshTtl(call.ns))
             THEN [call EXCEPT !.pc = "g_slide", !.cached = v]
             ELSE Return(call, IF v # << >> THEN <<v[1].value>> ELSE << >>)]
  /\ UNCHANGED <<components, now, slidingExpiration, published, relayLists, serverLists>>

(* await cache.set(key, value, ttlMs); return value *)
CacheSlide(c) ==
  /\ calls[c].pc = "g_slide"
  /\ LET call == calls[c]
     IN /\ caches' = GwseRefresh(caches, call.ns, call.key, call.cached[1],
                                 CustomTtl(call.ns), << >>)
        /\ calls' = [calls EXCEPT ![c] = Return(call, <<call.cached[1].value>>)]
  /\ UNCHANGED <<components, now, slidingExpiration, published, relayLists, serverLists>>

-----------------------------------------------------------------------------
(* NostrHelper.getRelayList *)

StartRelayList(c, pubkey) ==
  /\ Free(c)
  /\ Begin(c, [IdleCall EXCEPT !.op = "getRelayList", !.pc = "r_get", !.pubkey = pubkey])
  /\ UNCHANGED <<components, now, slidingExpiration, caches, published, relayLists, serverLists>>

(* const cached = await CacheService.getRelaysForPubkey(pubkey): the read *)
RGet(c) ==
  /\ calls[c].pc = "r_get"
  /\ LET call == calls[c]
         v == GwseValue(caches, "relays", call.pubkey)
     IN /\ caches' = [caches EXCEPT !.relays = KeyvAfterGet(@, call.pubkey)]
        /\ calls' = [calls EXCEPT ![c] =
             IF GwseRefreshes(v, slidingExpiration)
             THEN [call EXCEPT !.pc = "r_slide", !.cached = v]
             ELSE IF v # << >> THEN ReturnRelays(call, v[1].value)
             ELSE [call EXCEPT !.pc = "r_query"]]
  /\ UNCHANGED <<components, now, slidingExpiration, published, relayLists, serverLists>>

(* ... and the refresh of its TTL when sliding expiration is on *)
RSlide(c) ==
  /\ calls[c].pc = "r_slide"
  /\ LET call == calls[c]
     IN /\ caches' = GwseRefresh(caches, "relays", call.pubkey, call.cached[1], 0, << >>)
        /\ calls' = [calls EXCEPT ![c] = ReturnRelays(call, call.cached[1].value)]
  /\ UNCHANGED <<components, now, slidingExpiration, published, relayLists, serverLists>>

(* events = await this.queryRelays(config.defaultRelays, {kinds: [10002]}, 2000) *)
RQuery(c) ==
  /\ calls[c].pc = "r_query"
  /\ \E events \in QueryResults({e \in relayLists : e.pubkey = calls[c].pubkey}) :
       calls' = [calls EXCEPT ![c] =
         [@ EXCEPT !.pc = "r_set", !.rq = @ + 1, !.found = events,
                   !.pending = IF Len(events) = 0 THEN <<DefaultRelays>>
                               ELSE <<FinalRelays(events[1].tags)>>]]
  /\ UNCHANGED <<components, now, slidingExpiration, caches, published, relayLists, serverLists>>

(* await CacheService.setRelaysForPubkey(pubkey, finalRelays); return finalRelays *)
RSet(c) ==
  /\ calls[c].pc = "r_set"
  /\ LET call == calls[c]
     IN /\ caches' = SetRelaysForPubkey(caches, call.pubkey, call.pending[1], "RV")
        /\ calls' = [calls EXCEPT ![c] = ReturnRelays(call, call.pending[1])]
  /\ UNCHANGED <<components, now, slidingExpiration, published, relayLists, serverLists>>

-----------------------------------------------------------------------------
(* NostrHelper.getBlossomServers *)

StartBlossomServers(c, pubkey) ==
  /\ Free(c)
  /\ Begin(c, [IdleCall EXCEPT !.op = "getBlossomServers", !.pc = "s_get", !.pubkey = pubkey])
  /\ UNCHANGED <<components, now, slidingExpiration, caches, published, relayLists, serverLists>>

(* const cached = await CacheService.getBlossomServersForPubkey(pubkey) *)
SGet(c) ==
  /\ calls[c].pc = "s_get"
  /\ LET call == calls[c]
         v == GwseValue(caches, "servers", call.pubkey)
     IN /\ caches' = [caches EXCEPT !.servers = KeyvAfterGet(@, call.pubkey)]
        /\ calls' = [calls EXCEPT ![c] =
             IF GwseRefreshes(v, slidingExpiration)
             THEN [call EXCEPT !.pc = "s_slide", !.cached = v]
             ELSE IF v # << >> THEN Return(call, v[1].value)
             ELSE [call EXCEPT !.pc = "r_get"]]
  /\ UNCHANGED <<components, now, slidingExpiration, published, relayLists, serverLists>>

SSlide(c) ==
  /\ calls[c].pc = "s_slide"
  /\ LET call == calls[c]
     IN /\ caches' = GwseRefresh(caches, "servers", call.pubkey, call.cached[1], 0, << >>)
        /\ calls' = [calls EXCEPT ![c] = Return(call, call.cached[1].value)]
  /\ UNCHANGED <<components, now, slidingExpiration, published, relayLists, serverLists>>

(* events = await this.queryRelays(userRelays, {kinds: [10063]}, 10000) *)
SQuery(c) ==
  /\ calls[c].pc = "s_query"
  /\ \E events \in QueryResults({e \in serverLists : e.pubkey = calls[c].pubkey}) :
       calls' = [calls EXCEPT ![c] =
         [@ EXCEPT !.pc = "s_set", !.rq = @ + 1, !.found = events,
                   !.pending = IF Len(events) = 0 THEN <<DefaultBlossomServers>>
                               ELSE <<FinalServers(events[1].tags)>>]]
  /\ UNCHANGED <<components, now, slidingExpiration, caches, published, relayLists, serverLists>>

(* await CacheService.setBlossomServersForPubkey(pubkey, finalServers) *)
SSet(c) ==
  /\ calls[c].pc = "s_set"
  /\ LET call == calls[c]
     IN /\ caches' = SetBlossomServersForPubkey(caches, call.pubkey, call.pending[1], "RV")
        /\ calls' = [calls EXCEPT ![c] = Return(call, call.pending[1])]
  /\ UNCHANGED <<components, now, slidingExpiration, published, relayLists, serverLists>>

-----------------------------------------------------------------------------
(* NostrHelper.getStaticFileMapping *)

(* history: the subscriber write that the value this call is about to write *)
(* replaces without the call having seen it                                  *)
WritesOverSubscriber(call, value) ==
  IF /\ call.pre # << >>
     /\ ~(KeyvLive(caches.paths, PathKey(call.pubkey, call.path))
          /\ caches.paths[PathKey(call.pubkey, call.path)].value = value)
  THEN call.pre ELSE << >>

(* history: what a read of key observes, without its expiry time *)
Observed(cache, key) ==
  IF KeyvLive(cache, key)
  THEN <<[value |-> cache[key].value, by |-> cache[key].by, lost |-> cache[key].lost]>>
  ELSE << >>

StartStaticFileMapping(c, pubkey, path) ==
  /\ Free(c)
  /\ Begin(c, [IdleCall EXCEPT !.op = "getStaticFileMapping", !.pc = "m_get",
                               !.pubkey = pubkey, !.path = path, !.reqPath = path])
  /\ UNCHANGED <<components, now, slidingExpiration, caches, published, relayLists, serverLists>>

(* const cached = await CacheService.getBlobForPath(pubkey, path): the read; *)
(* without a refresh to do, a hit returns cached.sha256                      *)
MGet(c) ==
  /\ calls[c].pc = "m_get"
  /\ LET call == calls[c]
         key == PathKey(call.pubkey, call.path)
         v == GwseValue(caches, "paths", key)
         seen == [call EXCEPT !.pre = << >>,
                              !.atStart = IF call.fb = 0 THEN Observed(caches.paths, key) ELSE @,
                              !.negAtStart =
                                 IF call.fb = 0
                                 THEN KeyvLive(caches.negative, NegativeKey(call.pubkey, call.path))
                                 ELSE @]
     IN /\ caches' = [caches EXCEPT !.paths = KeyvAfterGet(@, key)]
        /\ calls' = [calls EXCEPT ![c] =
             IF GwseRefreshes(v, slidingExpiration)
             THEN [seen EXCEPT !.pc = "m_slide", !.cached = v]
             ELSE IF v # << >> THEN Return(seen, <<v[1].value.sha256>>)
             ELSE [seen EXCEPT !.pc = "m_neg"]]
  /\ UNCHANGED <<components, now, slidingExpiration, published, relayLists, serverLists>>

(* the refresh inside getBlobForPath, then return cached.sha256 *)
MSlide(c) ==
  /\ calls[c].pc = "m_slide"
  /\ LET call == calls[c]
         entry == call.cached[1]
     IN /\ caches' = GwseRefresh(caches, "paths", PathKey(call.pubkey, call.path), entry, 0,
                                 IF entry.lost # << >> THEN entry.lost
                                 ELSE WritesOverSubscriber(call, entry.value))
        /\ calls' = [calls EXCEPT ![c] = Return(call, <<entry.value.sha256>>)]
  /\ UNCHANGED <<components, now, slidingExpiration, published, relayLists, serverLists>>

(* if (await CacheService.isNegativeCached(`mapping:${pubkey}:${path}`)) return null *)
MNeg(c) ==
  /\ calls[c].pc = "m_neg"
  /\ LET call == calls[c]
         key == NegativeKey(call.pubkey, call.path)
     IN /\ caches' = [caches EXCEPT !.negative = KeyvAfterGet(@, key)]
        /\ calls' = [calls EXCEPT ![c] =
             IF IsNegativeCached(caches, key) THEN Return(call, << >>)
             ELSE [call EXCEPT !.pc = "r_get"]]
  /\ UNCHANGED <<components, now, slidingExpiration, published, relayLists, serverLists>>

(* what follows the relay queries of one level, given the events they found *)
AfterMappingQueries(call, events) ==
  IF Len(events) = 0
  THEN IF call.path # NotFoundPath
       THEN [call EXCEPT !.pc = "m_get", !.path = NotFoundPath, !.fb = @ + 1,
                         !.userRelays = << >>]
       ELSE [call EXCEPT !.pc = "m_negset"]
  ELSE IF FirstTagValue(events[1].tags, "x") = ""
       THEN [call EXCEPT !.pc = "m_negset"]
       ELSE [call EXCEPT !.pc = "m_set",
               !.pending = <<ParsedEvent(events[1], call.path,
                                         FirstTagValue(events[1].tags, "x"))>>]

(* a second query that is made whenever the first one found nothing *)
QueriesAllRelaysAlways(events, userRelays) ==
  Len(events) = 0 /\ Len(AllRelaysCombined(userRelays)) >= Len(userRelays)

(* whether the second query, over user + default relays, is made *)
QueriesAllRelays(events, userRelays) ==
  Len(events) = 0 /\ Len(AllRelaysCombined(userRelays)) > Len(userRelays)

(* let events = await this.queryRelays(userRelays, filter, ...) *)
MQuery1(c) ==
  /\ calls[c].pc = "m_q1"
  /\ LET call == calls[c]
     IN \E events \in QueryResults({e \in published : MatchesMapping(e, call.pubkey, call.path)}) :
          calls' = [calls EXCEPT ![c] =
            IF QueriesAllRelays(events, call.userRelays)
            THEN [call EXCEPT !.pc = "m_q2", !.mq = @ + 1]
            ELSE AfterMappingQueries([call EXCEPT !.mq = @ + 1], events)]
  /\ UNCHANGED <<components, now, slidingExpiration, caches, published, relayLists, serverLists>>

(* events = await this.queryRelays(allRelaysCombined, filter, ...) *)
MQuery2(c) ==
  /\ calls[c].pc = "m_q2"
  /\ LET call == calls[c]
     IN \E events \in QueryResults({e \in published : MatchesMapping(e, call.pubkey, call.path)}) :
          calls' = [calls EXCEPT ![c] = AfterMappingQueries([call EXCEPT !.mq = @ + 1], events)]
  /\ UNCHANGED <<components, now, slidingExpiration, caches, published, relayLists, serverLists>>

(* await CacheService.setBlobForPath(pubkey, path, parsedEvent); return sha256 *)
MSet(c) ==
  /\ calls[c].pc = "m_set"
  /\ LET call == calls[c]
         parsed == call.pending[1]
     IN /\ caches' = SetBlobForPath(caches, call.pubkey, call.path, parsed, "RV",
                                    WritesOverSubscriber(call, parsed))
        /\ calls' = [calls EXCEPT ![c] = Return(call, <<parsed.sha256>>)]
  /\ UNCHANGED <<components, now, slidingExpiration, published, relayLists, serverLists>>

(* await CacheService.setNegativeCache(`mapping:${pubkey}:${path}`); return null *)
MNegSet(c) ==
  /\ calls[c].pc = "m_negset"
  /\ LET call == calls[c]
     IN /\ caches' = SetNegativeCache(caches, NegativeKey(call.pubkey, call.path))
        /\ calls' = [calls EXCEPT ![c] = Return(call, << >>)]
  /\ UNCHANGED <<components, now, slidingExpiration, published, relayLists, serverLists>>

-----------------------------------------------------------------------------
(* CacheInvalidationService: the handlers of the three subscriptions.  Each *)
(* parses the event synchronously and awaits one cache write.                *)

(* history: the calls in flight on the paths key the subscriber now writes *)
NoteSubscriberWrite(pubkey, path, sha256) ==
  [c \in DOMAIN calls |->
     IF /\ calls[c].op = "getStaticFileMapping" /\ calls[c].pc # "done"
        /\ calls[c].pubkey = pubkey /\ calls[c].path = path
     THEN IF calls[c].pc # "m_get" THEN [calls[c] EXCEPT !.pre = <<sha256>>]
          ELSE IF calls[c].fb = 0 THEN [calls[c] EXCEPT !.early = TRUE]
          ELSE calls[c]
     ELSE calls[c]]

(* a handler that treats a mapping event without an x tag as an upsert of  *)
(* an empty hash                                                            *)
StaticFileWriteNoDelete(cs, event) ==
  LET path == FirstTagValue(event.tags, "d")
      sha256 == FirstTagValue(event.tags, "x")
  IN IF path = "" THEN cs
     ELSE SetBlobForPath(cs, event.pubkey, path, ParsedEvent(event, path, sha256), "IS", << >>)

(* the cache write of handleStaticFileEvent: none without a path, a delete  *)
(* without a hash, an upsert with both                                       *)
StaticFileWrite(cs, event) ==
  LET path == FirstTagValue(event.tags, "d")
      sha256 == FirstTagValue(event.tags, "x")
  IN IF path = "" THEN cs
     ELSE IF sha256 = "" THEN InvalidateBlobForPath(cs, event.pubkey, path)
     ELSE SetBlobForPath(cs, event.pubkey, path, ParsedEvent(event, path, sha256), "IS", << >>)

HandleStaticFileEvent(event) ==
  LET path == FirstTagValue(event.tags, "d")
      sha256 == FirstTagValue(event.tags, "x")
  IN /\ caches' = StaticFileWrite(caches, event)
     /\ calls' = IF path = "" THEN calls ELSE NoteSubscriberWrite(event.pubkey, path, sha256)
     /\ UNCHANGED <<components, now, slidingExpiration, published, relayLists, serverLists>>

(* the cache write of handleRelayListEvent *)
RelayListWrite(cs, event) ==
  SetRelaysForPubkey(cs, event.pubkey, FinalRelays(event.tags), "IS")

(* the cache write of handleBlossomServerEvent *)
BlossomServerWrite(cs, event) ==
  SetBlossomServersForPubkey(cs, event.pubkey, FinalServers(event.tags), "IS")

HandleRelayListEvent(event) ==
  /\ caches' = RelayListWrite(caches, event)
  /\ UNCHANGED <<components, now, slidingExpiration, published, relayLists, serverLists, calls>>

HandleBlossomServerEvent(event) ==
  /\ caches' = BlossomServerWrite(caches, event)
  /\ UNCHANGED <<components, now, slidingExpiration, published, relayLists, serverLists, calls>>

-----------------------------------------------------------------------------
(* MemoryCache.  mem.cache is the Map, its entries in insertion order, each *)
(* {data, timestamp, ttl} under its key; mem.op is the last method called,   *)
(* mem.got what it returned if it was get (<< >> for null), mem.had what it   *)
(* returned if it was has or delete.  History: mem.dropped, whether a get or  *)
(* has found an expired entry and deleted it; mem.evicted, the first key a    *)
(* set deleted to make room.                                                  *)

MemKeys == {"a", "b", "c"}
MemValues == {"v1", "v2"}
MemTtls == {<< >>, <<0>>}      \* the ttl argument of set: << >> when omitted

(* an isExpired that takes an entry to expire as soon as its ttl is reached *)
MemIsExpiredAtTtl(entry) == now - entry.timestamp >= entry.ttl

(* isExpired(entry): Date.now() - entry.timestamp > entry.ttl *)
MemIsExpired(entry) == now - entry.timestamp > entry.ttl

MemHasKey(cache, key) == \E i \in 1..Len(cache) : cache[i].key = key

MemEntry(cache, key) == cache[CHOOSE i \in 1..Len(cache) : cache[i].key = key]

(* this.cache.delete(key) *)
MemDeleteKey(cache, key) == SelectSeq(cache, LAMBDA e : e.key # key)

(* cleanup(): delete every entry with now - timestamp > ttl *)
MemCleanupMap(cache) == SelectSeq(cache, LAMBDA e : ~MemIsExpired(e))

(* this.cache.set(key, entry): a present key keeps its place in the order *)
MemPut(cache, entry) ==
  IF MemHasKey(cache, entry.key)
  THEN [i \in 1..Len(cache) |-> IF cache[i].key = entry.key THEN entry ELSE cache[i]]
  ELSE Append(cache, entry)

(* a set that evicts nothing when cleanup finds nothing expired *)
MemMakeRoomCleanupOnly(cache) ==
  IF Len(cache) >= MaxSize THEN MemCleanupMap(cache) ELSE cache

(* the head of set: if the cache is full, cleanup(), and if it is still     *)
(* full delete the first key of the Map                                      *)
MemMakeRoom(cache) ==
  IF Len(cache) >= MaxSize
  THEN IF Len(MemCleanupMap(cache)) >= MaxSize
       THEN Tail(MemCleanupMap(cache))
       ELSE MemCleanupMap(cache)
  ELSE cache

(* what get(key) returns: null for no entry or an expired one *)
MemGetValue(cache, key) ==
  IF MemHasKey(cache, key) /\ ~MemIsExpired(MemEntry(cache, key))
  THEN <<MemEntry(cache, key).data>> ELSE << >>

(* what has(key) returns *)
MemHasValue(cache, key) == MemHasKey(cache, key) /\ ~MemIsExpired(MemEntry(cache, key))

(* the Map after get(key) or has(key): an expired entry is deleted *)
MemAfterRead(cache, key) ==
  IF MemHasKey(cache, key) /\ MemIsExpired(MemEntry(cache, key))
  THEN MemDeleteKey(cache, key) ELSE cache

MemConstructed == mem # << >>

MemSet(key, value, ttl) ==
  /\ MemConstructed
  /\ mem' = [cache |-> MemPut(MemMakeRoom(mem.cache),
                              [key |-> key, data |-> value, timestamp |-> now,
                               ttl |-> IF ttl # << >> THEN ttl[1] ELSE CacheTtl]),
             op |-> "set", got |-> << >>, had |-> FALSE, dropped |-> FALSE,
             evicted |-> IF Len(MemMakeRoom(mem.cache)) < Len(MemCleanupMap(mem.cache))
                         THEN <<MemCleanupMap(mem.cache)[1].key>> ELSE << >>]
  /\ UNCHANGED <<fetch, req, engine, now, mgr, pool, query, sub>>

MemGet(key) ==
  /\ MemConstructed
  /\ mem' = [cache |-> MemAfterRead(mem.cache, key), op |-> "get",
             got |-> MemGetValue(mem.cache, key), had |-> FALSE,
             dropped |-> MemAfterRead(mem.cache, key) # mem.cache, evicted |-> << >>]
  /\ UNCHANGED <<fetch, req, engine, now, mgr, pool, query, sub>>

MemHas(key) ==
  /\ MemConstructed
  /\ mem' = [cache |-> MemAfterRead(mem.cache, key), op |-> "has",
             got |-> << >>, had |-> MemHasValue(mem.cache, key),
             dropped |-> MemAfterRead(mem.cache, key) # mem.cache, evicted |-> << >>]
  /\ UNCHANGED <<fetch, req, engine, now, mgr, pool, query, sub>>

MemDelete(key) ==
  /\ MemConstructed
  /\ mem' = [cache |-> MemDeleteKey(mem.cache, key), op |-> "delete",
             got |-> << >>, had |-> MemHasKey(mem.cache, key), dropped |-> FALSE, evicted |-> << >>]
  /\ UNCHANGED <<fetch, req, engine, now, mgr, pool, query, sub>>

(* the cleanupInterval of the constructor fires *)
MemCleanup ==
  /\ MemConstructed
  /\ mem' = [cache |-> MemCleanupMap(mem.cache), op |-> "cleanup", got |-> << >>,
             had |-> FALSE, dropped |-> FALSE, evicted |-> << >>]
  /\ UNCHANGED <<fetch, req, engine, now, mgr, pool, query, sub>>

-----------------------------------------------------------------------------
(* AdvancedCacheManager.  mgr.cachePath is config.cachePath, mgr.store the   *)
(* store the Keyv instances are created over ("memory" for undefined).       *)

RedisPaths == {"redis://localhost:6379"}      \* cachePath.startsWith('redis://')
SqlitePaths == {"sqlite://./cache.db"}        \* cachePath.startsWith('sqlite://')
CachePaths == {"in-memory"} \cup RedisPaths \cup SqlitePaths

(* createStore(): opened is whether the import of the adapter and its        *)
(* constructor succeed; the catch logs and returns undefined                  *)
CreateStore(cachePath, opened) ==
  IF cachePath = "" \/ cachePath = "in-memory" THEN "memory"
  ELSE IF cachePath \in RedisPaths THEN (IF opened THEN "redis" ELSE "memory")
  ELSE IF cachePath \in SqlitePaths THEN (IF opened THEN "sqlite" ELSE "memory")
  ELSE "memory"

(* initialize(), on the first CacheService.getCaches() *)
Initialize(opened) ==
  /\ mgr # << >>
  /\ ~mgr.initialized
  /\ mgr' = [mgr EXCEPT !.store = CreateStore(mgr.cachePath, opened), !.initialized = TRUE,
                        !.opened = opened]
  /\ UNCHANGED <<fetch, req, engine, now, mem, pool, query, sub>>

(* the caches sit on a backend that can fail: the in-memory Map does not *)
BackendAttached == mgr # << >> /\ mgr.initialized /\ mgr.store # "memory"

-----------------------------------------------------------------------------
(* NostrHelper's connection table.  pool.connections maps a relay URL to its *)
(* record, pool.timer is whether cleanupInterval is running; pool.op is the    *)
(* last method run, pool.batch the relays it passed to this.pool.close (<< >>  *)
(* if it made no such call) and pool.threw whether that call threw.            *)

PoolRelays == {"wss://r1", "wss://r2"}

NoConnections == [r \in {} |-> [lastUsed |-> 0, isConnected |-> TRUE]]

(* a janitor that lets a connection idle for twice the threshold *)
IsStaleAfterTwice(connection) == now - connection.lastUsed > 2 * WsConnectionTimeout

(* now - connection.lastUsed > configData.wsConnectionTimeoutMs *)
IsStale(connection) == now - connection.lastUsed > WsConnectionTimeout

(* ensureConnection(relayUrl), for each relay of getActiveRelays: a recent   *)
(* connected record is touched, any other is replaced by a new one            *)
EnsureConnection(relayUrl) ==
  /\ pool # << >>
  /\ pool' = [pool EXCEPT
       !.connections =
          IF /\ relayUrl \in DOMAIN @
             /\ @[relayUrl].isConnected
             /\ now - @[relayUrl].lastUsed < WsConnectionTimeout
          THEN [@ EXCEPT ![relayUrl].lastUsed = now]
          ELSE [r \in DOMAIN @ \cup {relayUrl} |->
                  IF r = relayUrl THEN [lastUsed |-> now, isConnected |-> TRUE] ELSE @[r]],
       !.op = "ensureConnection", !.batch = << >>, !.threw = FALSE]
  /\ UNCHANGED <<fetch, req, engine, now, mem, mgr, query, sub>>

(* cleanupStaleConnections(), run by cleanupInterval *)
CleanupStaleConnections(throws) ==
  /\ pool # << >>
  /\ pool.timer
  /\ LET staleRelays == {r \in DOMAIN pool.connections : IsStale(pool.connections[r])}
     IN pool' = [pool EXCEPT
          !.connections = [r \in DOMAIN @ \ staleRelays |-> @[r]],
          !.op = "cleanupStaleConnections",
          !.batch = IF staleRelays # {} THEN <<staleRelays>> ELSE << >>,
          !.threw = staleRelays # {} /\ throws]
  /\ UNCHANGED <<fetch, req, engine, now, mem, mgr, query, sub>>

(* closeConnections(relays): the deletes are skipped if this.pool.close throws *)
CloseConnections(connections, relays, throws) ==
  IF throws THEN connections ELSE [r \in DOMAIN connections \ relays |-> connections[r]]

(* a closeAllConnections without its this.connections.clear() *)
TableAfterCloseAllNoClear(connections, throws) ==
  IF DOMAIN connections # {}
  THEN CloseConnections(connections, DOMAIN connections, throws)
  ELSE connections

(* closeAllConnections: the table after closeConnections and clear() *)
TableAfterCloseAll(connections, throws) == NoConnections

(* closeAllConnections() *)
CloseAllConnections(throws) ==
  /\ pool # << >>
  /\ pool' = [connections |-> TableAfterCloseAll(pool.connections, throws),
              timer |-> FALSE,
              op |-> "closeAllConnections",
              batch |-> IF DOMAIN pool.connections # {}
                        THEN <<DOMAIN pool.connections>> ELSE << >>,
              threw |-> DOMAIN pool.connections # {} /\ throws]
  /\ UNCHANGED <<fetch, req, engine, now, mem, mgr, query, sub>>

-----------------------------------------------------------------------------
(* NostrHelper.queryRelays: one call.  query.kind is the kind of the filter, *)
(* query.relay the state of each active relay's subscription ("open",         *)
(* "eose" once it has sent EOSE, "closed"), query.events the length of the     *)
(* events array, completedRelays and hasFoundEvents the locals of the same     *)
(* name, grace whether the 200 ms timer is pending, by what resolved the       *)
(* promise.  query.perRelay is how the SimplePool of nostr-tools calls oneose  *)
(* and onclose: once per relay, as the counter expects, or once per            *)
(* subscription (when all relays have sent EOSE, when all have closed).        *)
(* query.subClosed is whether the call has run sub.close().                    *)

IdleQuery ==
  [pc |-> "idle", kind |-> 0, perRelay |-> TRUE, relay |-> [r \in {} |-> "open"],
   events |-> 0, completedRelays |-> 0, hasFoundEvents |-> FALSE, grace |-> FALSE,
   by |-> "", subClosed |-> FALSE]

(* resolve(events), after the first call of resolve nothing changes the result *)
Resolve(q, by) == [q EXCEPT !.pc = "resolved", !.by = by, !.grace = FALSE]

(* oneose() *)
OnEose(q) ==
  IF q.completedRelays + 1 = Cardinality(DOMAIN q.relay) \/ q.hasFoundEvents
  THEN Resolve([q EXCEPT !.completedRelays = @ + 1, !.subClosed = TRUE], "oneose")
  ELSE [q EXCEPT !.completedRelays = @ + 1]

(* onclose() *)
OnClose(q) ==
  IF q.pc = "resolved" THEN q
  ELSE IF q.completedRelays + 1 = Cardinality(DOMAIN q.relay)
  THEN Resolve([q EXCEPT !.completedRelays = @ + 1], "onclose")
  ELSE [q EXCEPT !.completedRelays = @ + 1]

Signalled(q) == {r \in DOMAIN q.relay : q.relay[r] # "open"}

(* queryRelays(relays, filter, timeoutMs) up to the return of subscribeMany; *)
(* active is what getActiveRelays returned                                    *)
StartQuery(kind, active, perRelay, throws) ==
  /\ query # << >>
  /\ query.pc \in {"idle", "resolved"}
  /\ query' =
       IF active = {} THEN Resolve([IdleQuery EXCEPT !.kind = kind], "no active relay")
       ELSE IF throws
       THEN Resolve([IdleQuery EXCEPT !.kind = kind, !.relay = [r \in active |-> "closed"]],
                    "subscribeMany threw")
       ELSE [IdleQuery EXCEPT !.pc = "subscribed", !.kind = kind, !.perRelay = perRelay,
                              !.relay = [r \in active |-> "open"]]
  /\ UNCHANGED <<fetch, req, engine, now, mem, mgr, pool, sub>>

(* onevent(event) *)
OnEvent(r) ==
  /\ query # << >>
  /\ query.pc = "subscribed"
  /\ r \in DOMAIN query.relay /\ query.relay[r] # "closed"
  /\ query.events < MaxEvents
  /\ query' = [query EXCEPT
       !.events = @ + 1,
       !.hasFoundEvents = @ \/ query.kind = MAPPING_KIND,
       !.grace = @ \/ (query.kind = MAPPING_KIND /\ ~query.hasFoundEvents)]
  /\ UNCHANGED <<fetch, req, engine, now, mem, mgr, pool, sub>>

(* relay r sends EOSE *)
RelayEose(r) ==
  /\ query # << >>
  /\ query.pc = "subscribed"
  /\ r \in DOMAIN query.relay /\ query.relay[r] = "open"
  /\ LET q == [query EXCEPT !.relay[r] = "eose"]
     IN query' = IF q.perRelay \/ Signalled(q) = DOMAIN q.relay THEN OnEose(q) ELSE q
  /\ UNCHANGED <<fetch, req, engine, now, mem, mgr, pool, sub>>

(* relay r closes the subscription, or its connection fails or drops *)
RelayClose(r) ==
  /\ query # << >>
  /\ query.pc = "subscribed"
  /\ r \in DOMAIN query.relay /\ query.relay[r] # "closed"
  /\ LET q == [query EXCEPT !.relay[r] = "closed"]
         allClosed == \A x \in DOMAIN q.relay : q.relay[x] = "closed"
         lastSignal == query.relay[r] = "open" /\ Signalled(q) = DOMAIN q.relay
     IN query' = IF q.perRelay THEN OnClose(q)
                 ELSE IF lastSignal /\ allClosed THEN OnClose(OnEose(q))
                 ELSE IF lastSignal THEN OnEose(q)
                 ELSE IF allClosed THEN OnClose(q)
                 ELSE q
  /\ UNCHANGED <<fetch, req, engine, now, mem, mgr, pool, sub>>

(* the 200 ms timer set by the first event of a kind 34128 query fires *)
GraceFires ==
  /\ query # << >>
  /\ query.pc = "subscribed" /\ query.grace
  /\ query' = Resolve([query EXCEPT !.subClosed = TRUE], "grace period")
  /\ UNCHANGED <<fetch, req, engine, now, mem, mgr, pool, sub>>

(* setTimeout(() => resolve(events), timeoutMs) fires *)
TimeoutFires ==
  /\ query # << >>
  /\ query.pc = "subscribed"
  /\ query' = Resolve(query, "timeout")
  /\ UNCHANGED <<fetch, req, engine, now, mem, mgr, pool, sub>>

-----------------------------------------------------------------------------
(* CacheInvalidationService: connecting, reconnecting and shutting down.     *)
(* sub.connections is the set of relays with a connected record,               *)
(* sub.subscriptions maps each key of the subscriptions Map to whether the     *)
(* subscription under it is still "open" or was "closed" by the relays,        *)
(* sub.timers counts the pending setTimeout callbacks of scheduleReconnect,    *)
(* sub.inits the initialize() calls waiting at their await.  History:          *)
(* sub.scheduled counts the reconnects scheduled, sub.inited the initialize()  *)
(* calls that ran to their end, sub.caught whether a handler's catch block     *)
(* has run.  sub.orphans counts, for each key, the subscriptions that          *)
(* subscribeMany returned, that no relay has closed, and that the table no     *)
(* longer holds because a later set() under the key replaced them.             *)

InvalidationRelays == {"wss://i1"}
SubscriptionKeys == {"static-files", "relay-lists", "blossom-servers"}
NoSubscriptions == [k \in {} |-> "open"]
NoOrphans == [k \in SubscriptionKeys |-> 0]

(* a startInvalidationSubscriptions that subscribes on the configured relays *)
ConfiguredRelays(s) == InvalidationRelays

(* startInvalidationSubscriptions: the relays of this.connections that are connected *)
ConnectedRelays(s) == s.connections

(* a reconnect timer that looks at the enabled flag only *)
ReconnectsWhenEnabled(s) == s.isEnabled

(* scheduleReconnect's callback: if (!this.isShuttingDown && this.isEnabled) *)
Reconnects(s) == ~s.isShuttingDown /\ s.isEnabled

(* initialize() up to the await in connectToRelays: every configured relay   *)
(* gets a record with isConnected = true                                      *)
BeginInitialize(s) == [s EXCEPT !.connections = InvalidationRelays, !.inits = @ + 1]

(* a constructor that calls initialize() whatever the configuration says *)
ConstructedConnecting(isEnabled) ==
  [isEnabled |-> isEnabled, isShuttingDown |-> FALSE, connections |-> InvalidationRelays,
   subscriptions |-> NoSubscriptions, timers |-> 0, inits |-> 1,
   scheduled |-> 0, inited |-> 0, caught |-> FALSE, orphans |-> NoOrphans]

(* the state the constructor leaves *)
Constructed(isEnabled) ==
  LET s == [isEnabled |-> isEnabled, isShuttingDown |-> FALSE, connections |-> {},
            subscriptions |-> NoSubscriptions, timers |-> 0, inits |-> 0,
            scheduled |-> 0, inited |-> 0, caught |-> FALSE, orphans |-> NoOrphans]
  IN IF isEnabled THEN BeginInitialize(s) ELSE s

(* initialize() after the await: startInvalidationSubscriptions() *)
InitializeResumes ==
  /\ sub # << >>
  /\ sub.inits > 0
  /\ sub' = [sub EXCEPT
       !.inits = @ - 1,
       !.inited = @ + 1,
       !.subscriptions = IF ConnectedRelays(sub) = {} THEN @
                         ELSE [k \in SubscriptionKeys |-> "open"],
       !.orphans = IF ConnectedRelays(sub) = {} THEN @
                   ELSE [k \in SubscriptionKeys |->
                           IF k \in DOMAIN sub.subscriptions /\ sub.subscriptions[k] = "open"
                           THEN @[k] + 1 ELSE @[k]]]
  /\ UNCHANGED <<fetch, req, engine, now, mem, mgr, pool, query>>

(* onclose of the subscription under key: scheduleReconnect() unless shutting down *)
SubscriptionCloses(key) ==
  /\ sub # << >>
  /\ key \in DOMAIN sub.subscriptions /\ sub.subscriptions[key] = "open"
  /\ sub.scheduled < MaxReconnects
  /\ sub' = [sub EXCEPT
       !.subscriptions[key] = "closed",
       !.timers = IF sub.isShuttingDown THEN @ ELSE @ + 1,
       !.scheduled = IF sub.isShuttingDown THEN @ ELSE @ + 1]
  /\ UNCHANGED <<fetch, req, engine, now, mem, mgr, pool, query>>

(* the setTimeout callback of scheduleReconnect runs *)
ReconnectTimerFires ==
  /\ sub # << >>
  /\ sub.timers > 0
  /\ sub' = IF Reconnects(sub)
            THEN BeginInitialize([sub EXCEPT !.timers = @ - 1])
            ELSE [sub EXCEPT !.timers = @ - 1]
  /\ UNCHANGED <<fetch, req, engine, now, mem, mgr, pool, query>>

(* shutdown(): reconnectTimers is never filled, so no pending timer is cleared *)
Shutdown ==
  /\ sub # << >>
  /\ sub' = [sub EXCEPT !.isShuttingDown = TRUE, !.subscriptions = NoSubscriptions,
                        !.connections = {},
                        !.orphans = IF sub.connections # {} THEN NoOrphans ELSE @]
  /\ UNCHANGED <<fetch, req, engine, now, mem, mgr, pool, query>>

(* onclose of a subscription that the table no longer holds: the same       *)
(* callback, scheduleReconnect() unless shutting down                        *)
OrphanCloses(key) ==
  /\ sub # << >>
  /\ sub.orphans[key] > 0
  /\ sub.scheduled < MaxReconnects
  /\ sub' = [sub EXCEPT
       !.orphans[key] = @ - 1,
       !.timers = IF sub.isShuttingDown THEN @ ELSE @ + 1,
       !.scheduled = IF sub.isShuttingDown THEN @ ELSE @ + 1]
  /\ UNCHANGED <<fetch, req, engine, now, mem, mgr, pool, query>>

(* the subscription under key is delivering events *)
Subscribed(key) ==
  sub # << >> /\ key \in DOMAIN sub.subscriptions /\ sub.subscriptions[key] = "open"

(* a handler whose error ends the subscription and schedules a reconnect *)
HandlerErrorCloses(s, key) ==
  [s EXCEPT !.caught = TRUE, !.subscriptions[key] = "closed", !.timers = @ + 1]

(* catch (error) { logger.error(...) } of the three handlers *)
HandlerCaught(s, key) == [s EXCEPT !.caught = TRUE]

(* onevent of the subscription under key: the handler runs to its end *)
SubscriptionEvent(key, event) ==
  /\ Subscribed(key)
  /\ CASE key = "static-files" -> event.kind = MAPPING_KIND /\ HandleStaticFileEvent(event)
       [] key = "relay-lists" -> event.kind = RELAY_LIST_KIND /\ HandleRelayListEvent(event)
       [] OTHER -> event.kind = SERVER_LIST_KIND /\ HandleBlossomServerEvent(event)

(* onevent of the subscription under key, and the handler's cache write or   *)
(* delete throws: control passes to the handler's catch block                 *)
SubscriptionEventFails(key, event) ==
  /\ Subscribed(key)
  /\ CASE key = "static-files" ->
            event.kind = MAPPING_KIND /\ FirstTagValue(event.tags, "d") # ""
       [] key = "relay-lists" -> event.kind = RELAY_LIST_KIND
       [] OTHER -> event.kind = SERVER_LIST_KIND
  /\ sub' = HandlerCaught(sub, key)
  /\ UNCHANGED <<fetch, req, engine, now, mem, mgr, pool, query>>

-----------------------------------------------------------------------------
(* A cache operation meets a backend error.  No CacheService method has a   *)
(* try/catch, so what its caller sees is what Keyv does with the store's      *)
(* error: it rejects, or it swallows it (a get resolves undefined, a set      *)
(* stores nothing).                                                           *)

GetPcs == {"g_get", "m_get", "m_neg", "r_get", "s_get"}
SlidePcs == {"g_slide", "m_slide", "r_slide", "s_slide"}
SetPcs == {"r_set", "s_set", "m_set", "m_negset"}
CatchPcs == {"r_catch", "s_catch", "m_catch"}

(* the resolver call rejects: the failing await is outside of any try *)
Rejected(call) ==
  [call EXCEPT !.pc = "rejected", !.cached = << >>, !.pending = << >>, !.userRelays = << >>]

(* the failing await is inside the try of getRelayList, getBlossomServers   *)
(* or getStaticFileMapping: control passes to its catch block                *)
Caught(call) ==
  CASE call.pc = "r_set" -> [call EXCEPT !.pc = "r_catch", !.pending = <<DefaultRelays>>]
    [] call.pc = "s_set" -> [call EXCEPT !.pc = "s_catch", !.pending = <<DefaultBlossomServers>>]
    [] OTHER -> [call EXCEPT !.pc = "m_catch", !.pending = << >>]

KeyvRejects(c) ==
  /\ BackendAttached
  /\ calls[c].pc \in GetPcs \cup SlidePcs \cup SetPcs \cup CatchPcs
  /\ calls' = [calls EXCEPT ![c] = IF @.pc \in SetPcs THEN Caught(@) ELSE Rejected(@)]
  /\ UNCHANGED <<components, now, slidingExpiration, caches, published, relayLists, serverLists>>

(* the call goes on as after a miss (get) or as after the write (set) *)
Swallowed(call) ==
  CASE call.pc = "g_get" -> Return(call, << >>)
    [] call.pc = "m_get" -> [call EXCEPT !.pc = "m_neg"]
    [] call.pc = "m_neg" -> [call EXCEPT !.pc = "r_get"]
    [] call.pc = "r_get" -> [call EXCEPT !.pc = "r_query"]
    [] call.pc = "s_get" -> [call EXCEPT !.pc = "r_get"]
    [] call.pc = "g_slide" -> Return(call, <<call.cached[1].value>>)
    [] call.pc = "m_slide" -> Return(call, <<call.cached[1].value.sha256>>)
    [] call.pc = "r_slide" -> ReturnRelays(call, call.cached[1].value)
    [] call.pc = "s_slide" -> Return(call, call.cached[1].value)
    [] call.pc \in {"r_set", "r_catch"} -> ReturnRelays(call, call.pending[1])
    [] call.pc \in {"s_set", "s_catch"} -> Return(call, call.pending[1])
    [] call.pc = "m_set" -> Return(call, <<call.pending[1].sha256>>)
    [] OTHER -> Return(call, << >>)

KeyvSwallows(c) ==
  /\ BackendAttached
  /\ calls[c].pc \in GetPcs \cup SlidePcs \cup SetPcs \cup CatchPcs
  /\ calls' = [calls EXCEPT ![c] = Swallowed(@)]
  /\ UNCHANGED <<components, now, slidingExpiration, caches, published, relayLists, serverLists>>

(* catch (error) { await CacheService.setRelaysForPubkey(pubkey, relays); return relays } *)
RCatch(c) ==
  /\ calls[c].pc = "r_catch"
  /\ caches' = SetRelaysForPubkey(caches, calls[c].pubkey, DefaultRelays, "RV")
  /\ calls' = [calls EXCEPT ![c] = ReturnRelays(@, DefaultRelays)]
  /\ UNCHANGED <<components, now, slidingExpiration, published, relayLists, serverLists>>

(* catch (error) { await CacheService.setBlossomServersForPubkey(pubkey, defaultServers); ... } *)
SCatch(c) ==
  /\ calls[c].pc = "s_catch"
  /\ caches' = SetBlossomServersForPubkey(caches, calls[c].pubkey, DefaultBlossomServers, "RV")
  /\ calls' = [calls EXCEPT ![c] = Return(@, DefaultBlossomServers)]
  /\ UNCHANGED <<components, now, slidingExpiration, published, relayLists, serverLists>>

(* catch (error) { await CacheService.setNegativeCache(...); return null } *)
MCatch(c) ==
  /\ calls[c].pc = "m_catch"
  /\ caches' = SetNegativeCache(caches, NegativeKey(calls[c].pubkey, calls[c].path))
  /\ calls' = [calls EXCEPT ![c] = Return(@, << >>)]
  /\ UNCHANGED <<components, now, slidingExpiration, published, relayLists, serverLists>>

-----------------------------------------------------------------------------
(* The environment: time passes, publishers publish.                        *)

Tick ==
  /\ now < MaxTime
  /\ now' = now + 1
  /\ UNCHANGED <<components, slidingExpiration, caches, published, relayLists, serverLists, calls>>

(* only an event with a d tag naming a path matches a resolver's filter *)
Publishable == {e \in MappingEvents : \E p \in Paths : HasTagValue(e, "d", p)}

PublishMapping(event) ==
  /\ event \notin published
  /\ Cardinality(published) < MaxPublished
  /\ published' = published \cup {event}
  /\ UNCHANGED <<components, now, slidingExpiration, caches, relayLists, serverLists, calls>>

-----------------------------------------------------------------------------
(* The specifications.  All start from empty caches and no call.            *)

NoCaches == [ns \in Namespaces |-> EmptyCache]

(* the components a specification leaves out: nothing constructed *)
Dormant ==
  /\ mem = << >>
  /\ mgr = << >>
  /\ pool = << >>
  /\ query = << >>
  /\ sub = << >>
  /\ fetch = << >>
  /\ req = << >>

(* the relay list the relays hold for p1 where one is published: it names   *)
(* relays that are not default relays                                        *)
UserRelayList ==
  Ev("p1", RELAY_LIST_KIND, 1,
     << <<"r", "wss://u1", "read">>, <<"r", "wss://u2">>, <<"r", "wss://u3", "write">> >>)

ResolverStep(c) ==
  \/ MGet(c) \/ MSlide(c) \/ MNeg(c)
  \/ RGet(c) \/ RSlide(c) \/ RQuery(c) \/ RSet(c)
  \/ MQuery1(c) \/ MQuery2(c) \/ MSet(c) \/ MNegSet(c)

(* Spec: one caller resolving paths, the subscriber receiving any mapping    *)
(* event, publishers publishing; no TTL runs out during the run.             *)
Init ==
  /\ now = 0
  /\ slidingExpiration \in BOOLEAN
  /\ caches = NoCaches
  /\ published = {}
  /\ relayLists = {UserRelayList}
  /\ serverLists = {}
  /\ calls = [c \in {"c1"} |-> IdleCall]
  /\ Dormant

Next ==
  \/ \E c \in DOMAIN calls, pk \in Pubkeys, p \in Paths : StartStaticFileMapping(c, pk, p)
  \/ \E c \in DOMAIN calls : ResolverStep(c)
  \/ \E e \in MappingEvents : HandleStaticFileEvent(e)
  \/ \E e \in Publishable : PublishMapping(e)

Spec == Init /\ [][Next]_vars

(* SpecRace: two callers resolving paths concurrently while the subscriber  *)
(* receives a newer mapping of /index.html, or its withdrawal, than the one  *)
(* the relays hold.  No relay list is published, so the user's relays are    *)
(* the default relays and no second query is made.                           *)
HeldMapping == Ev("p1", MAPPING_KIND, 1, << <<"d", "/index.html">>, <<"x", "h1">> >>)
NewerMapping == Ev("p1", MAPPING_KIND, 2, << <<"d", "/index.html">>, <<"x", "h2">> >>)
Withdrawal == Ev("p1", MAPPING_KIND, 2, << <<"d", "/index.html">> >>)

InitRace ==
  /\ now = 0
  /\ slidingExpiration \in BOOLEAN
  /\ caches = NoCaches
  /\ published = {HeldMapping}
  /\ relayLists = {}
  /\ serverLists = {}
  /\ calls = [c \in Callers |-> IdleCall]
  /\ Dormant

RaceStep(c) ==
  \/ MGet(c) \/ MSlide(c) \/ MNeg(c)
  \/ RGet(c) \/ RSlide(c) \/ RQuery(c) \/ RSet(c)
  \/ MQuery1(c) \/ MSet(c) \/ MNegSet(c)

NextRace ==
  \/ \E c \in DOMAIN calls, pk \in Pubkeys, p \in Paths : StartStaticFileMapping(c, pk, p)
  \/ \E c \in DOMAIN calls : RaceStep(c)
  \/ \E e \in {NewerMapping, Withdrawal} : HandleStaticFileEvent(e)

SpecRace == InitRace /\ [][NextRace]_vars

(* SpecClock: one caller resolving paths one call after the other, the      *)
(* subscriber, and the clock.  The relays hold no event of the pubkey, so    *)
(* no query finds one.                                                       *)
PrecachedMappings ==
  { Ev("p1", MAPPING_KIND, 1, << <<"d", "/index.html">>, <<"x", "h1">> >>),
    Ev("p1", MAPPING_KIND, 1, << <<"x", "h3">>, <<"d", "/404.html">> >>) }

InitClock ==
  /\ now = 0
  /\ slidingExpiration \in BOOLEAN
  /\ caches = NoCaches
  /\ published = {}
  /\ relayLists = {}
  /\ serverLists = {}
  /\ calls = [c \in {"c1"} |-> IdleCall]
  /\ Dormant

ClockStep(c) ==
  \/ MGet(c) \/ MSlide(c) \/ MNeg(c)
  \/ RGet(c) \/ RSlide(c) \/ RQuery(c) \/ RSet(c)
  \/ MQuery1(c) \/ MNegSet(c)

NextClock ==
  \/ \E c \in DOMAIN calls, pk \in Pubkeys, p \in Paths : StartStaticFileMapping(c, pk, p)
  \/ \E c \in DOMAIN calls : ClockStep(c)
  \/ \E e \in PrecachedMappings : HandleStaticFileEvent(e)
  \/ Tick

SpecClock == InitClock /\ [][NextClock]_vars

(* SpecLists: one caller asking for relay lists and server lists, the       *)
(* subscriber receiving list events; the relays hold at most one list event  *)
(* of each kind.                                                             *)
InitLists ==
  /\ now = 0
  /\ slidingExpiration \in BOOLEAN
  /\ caches = NoCaches
  /\ published = {}
  /\ relayLists \in { {} } \cup { {e} : e \in RelayListEvents }
  /\ serverLists \in { {} } \cup { {e} : e \in ServerListEvents }
  /\ calls = [c \in {"c1"} |-> IdleCall]
  /\ Dormant

ListStep(c) ==
  \/ RGet(c) \/ RSlide(c) \/ RQuery(c) \/ RSet(c)
  \/ SGet(c) \/ SSlide(c) \/ SQuery(c) \/ SSet(c)

NextLists ==
  \/ \E c \in DOMAIN calls, pk \in Pubkeys : StartRelayList(c, pk)
  \/ \E c \in DOMAIN calls, pk \in Pubkeys : StartBlossomServers(c, pk)
  \/ \E c \in DOMAIN calls : ListStep(c)
  \/ \E e \in RelayListEvents : HandleRelayListEvent(e)
  \/ \E e \in ServerListEvents : HandleBlossomServerEvent(e)

SpecLists == InitLists /\ [][NextLists]_vars

(* SpecCache: one caller of the CacheService getters and setters, and the   *)
(* clock.                                                                    *)
InitCache ==
  /\ now = 0
  /\ slidingExpiration \in BOOLEAN
  /\ caches = NoCaches
  /\ published = {}
  /\ relayLists = {}
  /\ serverLists = {}
  /\ calls = [c \in {"c1"} |-> IdleCall]
  /\ Dormant

NextCache ==
  \/ \E c \in DOMAIN calls, ns \in Namespaces, k \in CacheKeys : StartCacheGet(c, ns, k)
  \/ \E c \in DOMAIN calls : CacheGet(c)
  \/ \E c \in DOMAIN calls : CacheSlide(c)
  \/ \E ns \in Namespaces, k \in CacheKeys : CacheSet(ns, k)
  \/ Tick

SpecCache == InitCache /\ [][NextCache]_vars

(* SpecMemory: a MemoryCache under set, get, has, delete and cleanup, or    *)
(* the CacheService under its getters and setters with sliding expiration    *)
(* off, and the clock.                                                       *)
InitMemory ==
  /\ now = 0
  /\ fetch = << >>
  /\ req = << >>
  /\ slidingExpiration = FALSE
  /\ caches = NoCaches
  /\ published = {}
  /\ relayLists = {}
  /\ serverLists = {}
  /\ \/ mem = [cache |-> << >>, op |-> "", got |-> << >>, had |-> FALSE, dropped |-> FALSE, evicted |-> << >>] /\ calls = [c \in {} |-> IdleCall]
     \/ mem = << >> /\ calls = [c \in {"c1"} |-> IdleCall]
  /\ mgr = << >>
  /\ pool = << >>
  /\ query = << >>
  /\ sub = << >>

NextMemory ==
  \/ \E k \in MemKeys, v \in MemValues, ttl \in MemTtls : MemSet(k, v, ttl)
  \/ \E k \in MemKeys : MemGet(k)
  \/ \E k \in MemKeys : MemHas(k)
  \/ \E k \in MemKeys : MemDelete(k)
  \/ MemCleanup
  \/ \E c \in DOMAIN calls, ns \in Namespaces, k \in CacheKeys : StartCacheGet(c, ns, k)
  \/ \E c \in DOMAIN calls : CacheGet(c)
  \/ \E ns \in Namespaces, k \in CacheKeys : DOMAIN calls # {} /\ CacheSet(ns, k)
  \/ Tick

SpecMemory == InitMemory /\ [][NextMemory]_vars

(* SpecFaults: the cache manager initializes over its configured store, one *)
(* caller uses the three resolvers and a CacheService getter, and any cache   *)
(* operation on an attached backend can fail.                                 *)
InitFaults ==
  /\ now = 0
  /\ fetch = << >>
  /\ req = << >>
  /\ slidingExpiration \in BOOLEAN
  /\ caches = NoCaches
  /\ published = {HeldMapping}
  /\ relayLists = {}
  /\ serverLists = {}
  /\ calls = [c \in {"c1"} |-> IdleCall]
  /\ mem = << >>
  /\ \E cachePath \in CachePaths :
       mgr = [cachePath |-> cachePath, store |-> "", initialized |-> FALSE, opened |-> FALSE]
  /\ pool = << >>
  /\ query = << >>
  /\ sub = << >>

NextFaults ==
  \/ \E opened \in BOOLEAN : Initialize(opened)
  \/ \E c \in DOMAIN calls, pk \in {"p1"}, p \in {"/index.html"} :
       mgr.initialized /\ StartStaticFileMapping(c, pk, p)
  \/ \E c \in DOMAIN calls, pk \in {"p1"} : mgr.initialized /\ StartRelayList(c, pk)
  \/ \E c \in DOMAIN calls, pk \in {"p1"} : mgr.initialized /\ StartBlossomServers(c, pk)
  \/ \E c \in DOMAIN calls, k \in CacheKeys : mgr.initialized /\ StartCacheGet(c, "blobs", k)
  \/ \E k \in CacheKeys : mgr.initialized /\ CacheSet("blobs", k)
  \/ \E c \in DOMAIN calls : ResolverStep(c)
  \/ \E c \in DOMAIN calls : SGet(c) \/ SSlide(c) \/ SQuery(c) \/ SSet(c)
  \/ \E c \in DOMAIN calls : CacheGet(c) \/ CacheSlide(c)
  \/ \E c \in DOMAIN calls : KeyvRejects(c)
  \/ \E c \in DOMAIN calls : KeyvSwallows(c)
  \/ \E c \in DOMAIN calls : RCatch(c) \/ SCatch(c) \/ MCatch(c)

SpecFaults == InitFaults /\ [][NextFaults]_vars

(* SpecPool: the connection table under queries that touch relays, the      *)
(* janitor, shutdown and the clock.                                           *)
InitPool ==
  /\ now = 0
  /\ fetch = << >>
  /\ req = << >>
  /\ slidingExpiration = FALSE
  /\ caches = NoCaches
  /\ published = {}
  /\ relayLists = {}
  /\ serverLists = {}
  /\ calls = [c \in {} |-> IdleCall]
  /\ mem = << >>
  /\ mgr = << >>
  /\ pool = [connections |-> NoConnections, timer |-> TRUE, op |-> "", batch |-> << >>,
             threw |-> FALSE]
  /\ query = << >>
  /\ sub = << >>

NextPool ==
  \/ \E r \in PoolRelays : EnsureConnection(r)
  \/ \E throws \in BOOLEAN : CleanupStaleConnections(throws)
  \/ \E throws \in BOOLEAN : CloseAllConnections(throws)
  \/ Tick

SpecPool == InitPool /\ [][NextPool]_vars

(* SpecQuery: calls of queryRelays, one at a time, for a mapping or a relay  *)
(* list, over any set of active relays.                                       *)
InitQuery ==
  /\ now = 0
  /\ fetch = << >>
  /\ req = << >>
  /\ slidingExpiration = FALSE
  /\ caches = NoCaches
  /\ published = {}
  /\ relayLists = {}
  /\ serverLists = {}
  /\ calls = [c \in {} |-> IdleCall]
  /\ mem = << >>
  /\ mgr = << >>
  /\ pool = << >>
  /\ query = IdleQuery
  /\ sub = << >>

NextQuery ==
  \/ \E kind \in {MAPPING_KIND, RELAY_LIST_KIND}, active \in SUBSET PoolRelays,
        perRelay \in BOOLEAN, throws \in BOOLEAN : StartQuery(kind, active, perRelay, throws)
  \/ \E r \in PoolRelays : OnEvent(r)
  \/ \E r \in PoolRelays : RelayEose(r)
  \/ \E r \in PoolRelays : RelayClose(r)
  \/ GraceFires
  \/ TimeoutFires

SpecQuery == InitQuery /\ [][NextQuery]_vars

(* SpecSub: the invalidation subscriber from its construction on, with its  *)
(* subscriptions closing, its reconnect timers firing and shutdown called at  *)
(* any moment.  SpecSubFair adds what the event loop guarantees: a pending    *)
(* timer fires and a pending await resumes.                                   *)
InitSub ==
  /\ now = 0
  /\ fetch = << >>
  /\ req = << >>
  /\ slidingExpiration = FALSE
  /\ caches = NoCaches
  /\ published = {}
  /\ relayLists = {}
  /\ serverLists = {}
  /\ calls = [c \in {} |-> IdleCall]
  /\ mem = << >>
  /\ mgr = << >>
  /\ pool = << >>
  /\ query = << >>
  /\ \E isEnabled \in BOOLEAN : sub = Constructed(isEnabled)

NextSub ==
  \/ InitializeResumes
  \/ \E key \in SubscriptionKeys : SubscriptionCloses(key)
  \/ ReconnectTimerFires
  \/ Shutdown

SpecSub == InitSub /\ [][NextSub]_vars

SpecSubFair ==
  InitSub /\ [][NextSub]_vars /\ WF_vars(ReconnectTimerFires) /\ WF_vars(InitializeResumes)

(* SpecLive: the same service, with the closes of replaced subscriptions *)
NextLive ==
  \/ NextSub
  \/ \E key \in SubscriptionKeys : OrphanCloses(key)

SpecLive == InitSub /\ [][NextLive]_vars

(* SpecEvents: the invalidation subscriber, enabled or not, receiving events *)
(* on its open subscriptions, with cache writes that can fail.                *)
SubscriberEvents ==
  { Ev("p1", MAPPING_KIND, 1, << <<"d", "/index.html">>, <<"x", "h1">> >>),
    Ev("p1", MAPPING_KIND, 2, << <<"d", "/index.html">> >>),
    Ev("p1", MAPPING_KIND, 3, << <<"x", "h1">> >>),
    UserRelayList,
    Ev("p1", SERVER_LIST_KIND, 1, << <<"server", "https://b1">> >>) }

InitEvents ==
  /\ now = 0
  /\ fetch = << >>
  /\ req = << >>
  /\ slidingExpiration = FALSE
  /\ caches = NoCaches
  /\ published = {}
  /\ relayLists = {}
  /\ serverLists = {}
  /\ calls = [c \in {} |-> IdleCall]
  /\ mem = << >>
  /\ mgr = << >>
  /\ pool = << >>
  /\ query = << >>
  /\ \E isEnabled \in BOOLEAN : sub = Constructed(isEnabled)

NextEvents ==
  \/ InitializeResumes
  \/ \E key \in SubscriptionKeys : SubscriptionCloses(key)
  \/ ReconnectTimerFires
  \/ Shutdown
  \/ \E key \in SubscriptionKeys, e \in SubscriberEvents : SubscriptionEvent(key, e)
  \/ \E key \in SubscriptionKeys, e \in SubscriberEvents : SubscriptionEventFails(key, e)

SpecEvents == InitEvents /\ [][NextEvents]_vars

-----------------------------------------------------------------------------
(* Properties                                                               *)

MappingCalls == {c \in DOMAIN calls : calls[c].op = "getStaticFileMapping"}

(* the entry is the upsert of a mapping event the subscriber handled, or was *)
(* written over that upsert by a call that never saw it; in both cases the   *)
(* subscriber's entry had neither expired nor been deleted                   *)
KeepsSubscriberUpsert(entry) ==
  \/ entry.by = "IS" /\ entry.lost = << >>
  \/ entry.lost # << >> /\ entry.lost # <<"">>

(* E.x of that event *)
SubscriberHash(entry) == IF entry.lost # << >> THEN entry.lost[1] ELSE entry.value.sha256

(* C1: once the subscriber has handled a mapping event E with a d and an x  *)
(* tag, a later getStaticFileMapping(E.pubkey, E.d) that starts while E's    *)
(* entry has neither expired nor been invalidated returns E.x and issues no  *)
(* relay query.                                                              *)
C1_SubscriberMappingServed ==
  \A c \in MappingCalls :
    LET call == calls[c]
    IN (/\ call.pc = "done" /\ ~call.early
        /\ call.atStart # << >> /\ KeepsSubscriberUpsert(call.atStart[1]))
       => /\ call.result = <<SubscriberHash(call.atStart[1])>>
          /\ call.mq = 0 /\ call.rq = 0

(* C2: for a pubkey with no mapping for a path and none for /404.html, of   *)
(* two getStaticFileMapping calls for that path within the negative-cache    *)
(* TTL the first queries the relays and the second, answered from the        *)
(* NegativeMark, issues no relay query.                                      *)
C2_RepeatAnsweredFromNegativeMark ==
  \A c \in MappingCalls :
    LET call == calls[c]
    IN (/\ call.pc = "done" /\ call.follows # << >>
        /\ now - call.follows[1] <= NegativeCacheTtl
        /\ call.atStart = << >> /\ call.result = << >>)
       => call.mq = 0

(* C3: a resolver call that starts after a subscriber write (upsert or      *)
(* delete) of its (pubkey, path) has completed observes that write, also     *)
(* with sliding expiration on: its first read never finds a value that was   *)
(* written over the subscriber's write.                                      *)
C3_LaterCallObservesSubscriberWrite ==
  \A c \in MappingCalls :
    (~calls[c].early /\ calls[c].atStart # << >>) => calls[c].atStart[1].lost = << >>

(* C4: a cached mapping is superseded only by an event with greater         *)
(* created_at: no write to a paths entry that is there lowers its            *)
(* created_at.                                                               *)
C4_SupersededOnlyByNewer ==
  [][\A k \in DOMAIN caches.paths \cap DOMAIN caches'.paths :
       caches'.paths[k].value.created_at >= caches.paths[k].value.created_at]_vars

(* the indexes of the tags of that name that carry a value *)
TagIndexes(event, name) ==
  {i \in 1..Len(event.tags) :
     Len(event.tags[i]) >= 2 /\ event.tags[i][1] = name /\ event.tags[i][2] # ""}

FirstIndex(S) == CHOOSE i \in S : \A j \in S : i <= j

SameExcept(cs, after, key) ==
  /\ \A ns \in Namespaces \ {"paths"} : after[ns] = cs[ns]
  /\ DOMAIN after.paths \ {key} = DOMAIN cs.paths \ {key}
  /\ \A k \in DOMAIN cs.paths \ {key} : after.paths[k] = cs.paths[k]

(* C5: what handleStaticFileEvent does to the caches is decided by the      *)
(* event's tags: without a d tag nothing changes; with a d tag and no x tag  *)
(* the entry pubkey || d is deleted; with both it is upserted with           *)
(* {pubkey, path = d, sha256 = x, created_at}; no other entry changes.       *)
C5_EffectDecidedByTags ==
  \A e \in MappingEvents :
    LET after == StaticFileWrite(caches, e)
        ds == TagIndexes(e, "d")
        xs == TagIndexes(e, "x")
    IN IF ds = {} THEN after = caches
       ELSE LET d == e.tags[FirstIndex(ds)][2]
                key == e.pubkey \o d
            IN /\ SameExcept(caches, after, key)
               /\ IF xs = {} THEN key \notin DOMAIN after.paths
                  ELSE /\ key \in DOMAIN after.paths
                       /\ after.paths[key].value =
                            [pubkey |-> e.pubkey, path |-> d,
                             sha256 |-> e.tags[FirstIndex(xs)][2],
                             created_at |-> e.created_at]
                       /\ after.paths[key].expires = now + CacheTime

(* the subscriber has upserted the mapping of /404.html whose first x tag   *)
(* has no value: the hash is the one of the next x tag                       *)
C5_Upserted ==
  /\ "p1/404.html" \in DOMAIN caches.paths
  /\ caches.paths["p1/404.html"].by = "IS"
  /\ caches.paths["p1/404.html"].value =
       [pubkey |-> "p1", path |-> "/404.html", sha256 |-> "h2", created_at |-> 2]

(* C6: a call falls back to /404.html at most once, only from another path, *)
(* and makes at most two mapping queries per path, four in all; the second   *)
(* query of a path is made only when user + default relays are strictly more *)
(* than the user relays.                                                     *)
C6_OneFallbackFourQueries ==
  \A c \in MappingCalls :
    LET call == calls[c]
    IN /\ call.fb <= 1
       /\ call.mq <= 2 * (call.fb + 1)
       /\ call.fb = 1 => call.path = NotFoundPath /\ call.reqPath # NotFoundPath
       /\ call.fb = 0 => call.path = call.reqPath
       /\ call.pc = "m_q2" =>
            Len(AllRelaysCombined(call.userRelays)) > Len(call.userRelays)

(* a call has queried user relays and all relays for the path and for      *)
(* /404.html, found nothing and returned null                                *)
C6_FourQueriesMade ==
  \E c \in MappingCalls :
    /\ calls[c].pc = "done" /\ calls[c].fb = 1 /\ calls[c].mq = 4
    /\ calls[c].result = << >>

(* the URLs a relay list names for reading: of the r tags with a URL whose  *)
(* marker is absent (or empty) or "read", in tag order                       *)
ReadRelayUrls(tags) ==
  LET keep(t) == /\ Len(t) >= 2 /\ t[1] = "r" /\ t[2] # ""
                 /\ (Len(t) = 2 \/ t[3] = "" \/ t[3] = "read")
      kept == SelectSeq(tags, keep)
  IN [i \in 1..Len(kept) |-> kept[i][2]]

(* the URLs a server list names: of the server tags with a URL, in tag order *)
ServerUrls(tags) ==
  LET keep(t) == Len(t) >= 2 /\ t[1] = "server" /\ t[2] # ""
      kept == SelectSeq(tags, keep)
  IN [i \in 1..Len(kept) |-> kept[i][2]]

(* the call queried the relays for a list and has that answer in hand *)
Queried(call, op) ==
  call.op = op /\ call.found # << >> /\ call.pc \in {"r_set", "s_set", "done"}

(* what the call is about to cache and return, or has returned *)
Outcome(call) == IF call.pc = "done" THEN call.result ELSE call.pending[1]

(* the entry a resolver wrote for the pubkey holds what the call returned *)
CachedAsReturned(cache, call) ==
  (call.pc = "done" /\ call.rq >= 1 /\ call.pubkey \in DOMAIN cache
   /\ cache[call.pubkey].by = "RV") => cache[call.pubkey].value = call.result

(* C7: from a relay-list event that names relays for reading, getRelayList  *)
(* and handleRelayListEvent cache exactly the URLs of the r tags whose       *)
(* marker is absent or "read", in tag order, and nothing else.               *)
C7_ReadRelaysInTagOrder ==
  /\ \A e \in RelayListEvents :
       ReadRelayUrls(e.tags) # << >> =>
         RelayListWrite(caches, e).relays[e.pubkey].value = ReadRelayUrls(e.tags)
  /\ \A c \in DOMAIN calls :
       LET call == calls[c]
       IN (Queried(call, "getRelayList") /\ ReadRelayUrls(call.found[1].tags) # << >>)
          => /\ Outcome(call) = ReadRelayUrls(call.found[1].tags)
             /\ CachedAsReturned(caches.relays, call)

(* getRelayList has found the list [r u1 read] [r u2] [r u3 write], cached  *)
(* and returned [u1, u2]                                                     *)
C7_ReadRelaysCached ==
  \E c \in DOMAIN calls :
    /\ calls[c].op = "getRelayList" /\ calls[c].pc = "done"
    /\ calls[c].found = <<UserRelayList>>
    /\ calls[c].result = <<"wss://u1", "wss://u2">>
    /\ "p1" \in DOMAIN caches.relays
    /\ caches.relays["p1"].by = "RV"
    /\ caches.relays["p1"].value = <<"wss://u1", "wss://u2">>

(* no list event was found, or the one found names nothing valid *)
NothingValid(found, Urls(_)) == found = << >> \/ Urls(found[1].tags) = << >>

(* C8: when no list event is found or the event has no valid entry, the     *)
(* configured defaults are cached for the pubkey and returned: the default   *)
(* relays by getRelayList and handleRelayListEvent, the default blob servers *)
(* by getBlossomServers and handleBlossomServerEvent.                        *)
C8_DefaultsWhenNothingValid ==
  /\ \A e \in RelayListEvents :
       ReadRelayUrls(e.tags) = << >> =>
         RelayListWrite(caches, e).relays[e.pubkey].value = DefaultRelays
  /\ \A e \in ServerListEvents :
       ServerUrls(e.tags) = << >> =>
         BlossomServerWrite(caches, e).servers[e.pubkey].value = DefaultBlossomServers
  /\ \A c \in DOMAIN calls :
       LET call == calls[c]
       IN /\ (/\ call.op = "getRelayList" /\ call.rq >= 1 /\ call.pc \in {"r_set", "done"}
              /\ NothingValid(call.found, ReadRelayUrls))
             => /\ Outcome(call) = DefaultRelays
                /\ CachedAsReturned(caches.relays, call)
          /\ (/\ call.op = "getBlossomServers" /\ call.pc \in {"s_set", "done"}
              /\ call.rq >= 1 /\ NothingValid(call.found, ServerUrls))
             => /\ Outcome(call) = DefaultBlossomServers
                /\ CachedAsReturned(caches.servers, call)

(* getBlossomServers has found a server list without a valid server tag,     *)
(* cached and returned the default blob servers                              *)
C8_DefaultServersCached ==
  \E c \in DOMAIN calls :
    /\ calls[c].op = "getBlossomServers" /\ calls[c].pc = "done"
    /\ calls[c].found # << >> /\ ServerUrls(calls[c].found[1].tags) = << >>
    /\ calls[c].result = DefaultBlossomServers
    /\ "p1" \in DOMAIN caches.servers
    /\ caches.servers["p1"].by = "RV"
    /\ caches.servers["p1"].value = DefaultBlossomServers

(* a step of a CacheService getter *)
GetStep(c) == CacheGet(c) \/ CacheSlide(c)

(* the step writes no entry of the namespace: it adds none, changes none *)
WritesNothing(ns) ==
  \A k \in DOMAIN caches'[ns] : k \in DOMAIN caches[ns] /\ caches'[ns][k] = caches[ns][k]

SlidingNamespaces == {"domains", "relays", "servers", "paths"}

(* C9: with sliding expiration off no step of a CacheService getter writes  *)
(* to a cache or extends an expiry, and a get later than t + ttl of an entry *)
(* put at t finds nothing; with it on, a hit on domains, relays, servers or  *)
(* paths is followed by the refresh, which sets the entry's expiry to a full *)
(* default TTL from then and keeps its value.                                *)
C9_SlidingExpiration ==
  [][\A c \in DOMAIN calls :
       LET call == calls[c]
       IN /\ (GetStep(c) /\ ~slidingExpiration) =>
               /\ \A ns \in Namespaces : WritesNothing(ns)
               /\ calls'[c].pc = "done"
               /\ (/\ call.key \in DOMAIN caches[call.ns]
                   /\ now > caches[call.ns][call.key].putAt + DefaultTtl(call.ns))
                  => calls'[c].result = << >>
          /\ (/\ CacheGet(c) /\ slidingExpiration /\ call.ns \in SlidingNamespaces
              /\ KeyvLive(caches[call.ns], call.key))
             => calls'[c].pc = "g_slide"
          /\ (CacheSlide(c) /\ call.ns \in SlidingNamespaces) =>
               /\ slidingExpiration
               /\ caches'[call.ns][call.key].expires = now + CacheTime
               /\ caches'[call.ns][call.key].value = call.cached[1].value
               /\ calls'[c].result = <<call.cached[1].value>>]_vars

(* with sliding expiration on, a hit on paths later than the put has reset  *)
(* the entry's expiry to a full default TTL                                  *)
C9_Refreshed ==
  \E c \in DOMAIN calls :
    /\ slidingExpiration
    /\ calls[c].op = "get" /\ calls[c].pc = "done" /\ calls[c].ns = "paths"
    /\ calls[c].result # << >>
    /\ calls[c].key \in DOMAIN caches.paths
    /\ caches.paths[calls[c].key].putAt < now
    /\ caches.paths[calls[c].key].expires = now + CacheTime

(* C10 as stated: no read extends a NegativeMark, and no read of the        *)
(* content namespace extends a blob's lifetime (the code has no separate     *)
(* switch for content refresh).                                              *)
C10_ReadsNeverExtend ==
  [][\A c \in DOMAIN calls :
       (GetStep(c) /\ calls[c].ns \in {"negative", "content"})
       => WritesNothing(calls[c].ns)]_vars

(* C10: no read extends a NegativeMark, whatever the sliding-expiration     *)
(* flag; a read of the content namespace leaves the blob's lifetime alone    *)
(* when sliding expiration is off and, when it is on, a hit resets it to a   *)
(* full content TTL.                                                         *)
C10_ContentSlidesWithFlag ==
  [][\A c \in DOMAIN calls :
       LET call == calls[c]
       IN /\ (GetStep(c) /\ call.ns = "negative") =>
               \A ns \in Namespaces : WritesNothing(ns)
          /\ (GetStep(c) /\ call.ns = "content" /\ ~slidingExpiration) =>
               \A ns \in Namespaces : WritesNothing(ns)
          /\ (/\ CacheGet(c) /\ call.ns = "content" /\ slidingExpiration
              /\ KeyvLive(caches.content, call.key))
             => calls'[c].pc = "g_slide"
          /\ (CacheSlide(c) /\ call.ns = "content") =>
               /\ slidingExpiration
               /\ caches'.content[call.key].expires = now + FileContentCacheTtl
               /\ caches'.content[call.key].value = call.cached[1].value]_vars

(* with sliding expiration on, a getFileContent hit later than the put has  *)
(* reset the blob's expiry to a full content TTL                             *)
C10_ContentRefreshed ==
  \E c \in DOMAIN calls :
    /\ slidingExpiration
    /\ calls[c].op = "get" /\ calls[c].pc = "done" /\ calls[c].ns = "content"
    /\ calls[c].result # << >>
    /\ calls[c].key \in DOMAIN caches.content
    /\ caches.content[calls[c].key].putAt < now
    /\ caches.content[calls[c].key].expires = now + FileContentCacheTtl

-----------------------------------------------------------------------------
(* MemoryCache                                                              *)

(* the entry of key is older than its ttl *)
MemOutlived(key) ==
  /\ MemHasKey(mem.cache, key)
  /\ now - MemEntry(mem.cache, key).timestamp > MemEntry(mem.cache, key).ttl

(* C11: in a MemoryCache and in every CacheService namespace, a get of k in  *)
(* the instant of a put of (k, v, ttl) returns v, and once more than ttl has  *)
(* passed since the put, get and has answer as they do for a key that was     *)
(* never put (null, false), and the entry is gone.                            *)
C11_PutGetExpire ==
  [][/\ \A k \in MemKeys, v \in MemValues, ttl \in MemTtls :
          MemSet(k, v, ttl) =>
            /\ MemGetValue(mem'.cache, k) = <<v>>
            /\ MemHasValue(mem'.cache, k)
     /\ \A k \in MemKeys :
          /\ (MemGet(k) /\ (MemOutlived(k) \/ ~MemHasKey(mem.cache, k))) =>
                mem'.got = << >> /\ ~MemHasKey(mem'.cache, k)
          /\ (MemHas(k) /\ (MemOutlived(k) \/ ~MemHasKey(mem.cache, k))) =>
                ~mem'.had /\ ~MemHasKey(mem'.cache, k)
     /\ \A ns \in Namespaces, k \in CacheKeys :
          CacheSet(ns, k) =>
            /\ GwseValue(caches', ns, k) # << >>
            /\ GwseValue(caches', ns, k)[1].value = "v"
     /\ \A c \in DOMAIN calls :
          LET call == calls[c]
              held == call.key \in DOMAIN caches[call.ns]
          IN CacheGet(c) =>
               /\ (held /\ caches[call.ns][call.key].putAt = now) =>
                     calls'[c].result = <<caches[call.ns][call.key].value>>
               /\ (~held \/ now > caches[call.ns][call.key].putAt + DefaultTtl(call.ns)) =>
                     /\ calls'[c].result = << >>
                     /\ calls'[c].pc = "done"
                     /\ call.key \notin DOMAIN caches'[call.ns]]_vars

(* a get of the MemoryCache has found an entry older than its ttl, dropped   *)
(* it and returned null, while a younger entry stays                          *)
C11_ExpiredReadAbsent ==
  /\ MemConstructed
  /\ mem.op = "get" /\ mem.dropped /\ mem.got = << >>
  /\ mem.cache # << >>

MemKeysOf(cache) == {cache[i].key : i \in 1..Len(cache)}

(* set finds the cache full with no entry expired *)
MemFullAndFresh ==
  /\ Len(mem.cache) >= MaxSize
  /\ \A i \in 1..Len(mem.cache) : ~(now - mem.cache[i].timestamp > mem.cache[i].ttl)

-----------------------------------------------------------------------------
(* Failures                                                                 *)

Resolvers == {"getRelayList", "getBlossomServers", "getStaticFileMapping"}

(* C13: no call of getRelayList, getBlossomServers or getStaticFileMapping   *)
(* ends rejected, whatever cache operation or relay query failed on its way.  *)
C13_ResolversNeverReject ==
  \A c \in DOMAIN calls : calls[c].op \in Resolvers => calls[c].pc # "rejected"

(* C14: no CacheService operation hands a backend error to its caller: no    *)
(* getter call ends rejected, and no failed set or get diverts a resolver     *)
(* into its catch block or out of the call.                                   *)
C14_BackendErrorsSwallowed ==
  \A c \in DOMAIN calls : calls[c].pc \notin {"rejected"} \cup CatchPcs

(* C15: a cache manager configured with a redis:// or sqlite:// path whose   *)
(* store could not be opened is not initialized, and never holds the          *)
(* in-memory store in its place.                                              *)
C15_NoSilentDowngrade ==
  (mgr # << >> /\ mgr.cachePath \in RedisPaths \cup SqlitePaths /\ ~mgr.opened)
  => (~mgr.initialized /\ mgr.store # "memory")

-----------------------------------------------------------------------------
(* The connection table                                                     *)

(* C16: right after a run of cleanupStaleConnections no record is idle for   *)
(* longer than the threshold; the relays it removed are exactly the ones      *)
(* passed to pool.close, in one call; and every record used within the        *)
(* threshold is still there, unchanged.                                       *)
C16_JanitorRemovesStale ==
  [][\A throws \in BOOLEAN :
       CleanupStaleConnections(throws) =>
         LET before == pool.connections
             after == pool'.connections
             removed == DOMAIN before \ DOMAIN after
         IN /\ \A r \in DOMAIN after : now - after[r].lastUsed <= WsConnectionTimeout
            /\ pool'.batch = IF removed # {} THEN <<removed>> ELSE << >>
            /\ \A r \in DOMAIN before :
                 now - before[r].lastUsed <= WsConnectionTimeout =>
                   r \in DOMAIN after /\ after[r] = before[r]]_vars

(* the janitor has removed one relay, whose close threw, and kept another *)
C16_StaleClosedRecentKept ==
  /\ pool # << >>
  /\ pool.op = "cleanupStaleConnections"
  /\ pool.batch # << >> /\ pool.threw
  /\ pool.connections # NoConnections
  /\ pool.batch[1] \cap DOMAIN pool.connections = {}

(* C18: closeAllConnections passes every tracked relay to pool.close in one  *)
(* call, and leaves the table empty and the janitor stopped whether or not    *)
(* that call throws; on an already closed helper it makes no call and         *)
(* changes neither the table nor the timer.                                   *)
C18_CloseAllIdempotent ==
  [][\A throws \in BOOLEAN :
       CloseAllConnections(throws) =>
         /\ pool'.connections = NoConnections
         /\ ~pool'.timer
         /\ DOMAIN pool.connections # {} => pool'.batch = <<DOMAIN pool.connections>>
         /\ (pool.connections = NoConnections /\ ~pool.timer) =>
              /\ pool'.batch = << >>
              /\ pool'.connections = pool.connections
              /\ pool'.timer = pool.timer]_vars

(* closeAllConnections has closed two relays in a call that threw *)
C18_ClosedThoughThrown ==
  /\ pool # << >>
  /\ pool.op = "closeAllConnections"
  /\ pool.threw
  /\ pool.batch = <<PoolRelays>>
  /\ pool.connections = NoConnections /\ ~pool.timer

-----------------------------------------------------------------------------
(* queryRelays                                                              *)

(* C17: a queryRelays call is resolved, never rejected, exactly from when    *)
(* every contacted relay has sent EOSE or closed, or the timeout has fired,   *)
(* whichever is first (or at once with no active relay or a throwing          *)
(* subscribeMany).  Stated here with the early termination of a mapping       *)
(* lookup that has found an event allowed as well.                            *)
C17_ResolvesAtCompletionOrTimeout ==
  query # << >> =>
    /\ query.pc = "resolved" =>
         \/ query.by \in {"timeout", "no active relay", "subscribeMany threw"}
         \/ Signalled(query) = DOMAIN query.relay
         \/ query.hasFoundEvents
    /\ query.pc = "subscribed" => Signalled(query) # DOMAIN query.relay

-----------------------------------------------------------------------------
(* The invalidation subscriber's reconnects and shutdown                    *)

(* C19: a subscription that closes while the service is enabled and not      *)
(* shutting down schedules a reconnect; every scheduled reconnect is          *)
(* followed by a further initialize() that runs to its end, unless shutdown   *)
(* is called; and once the service is shutting down no close schedules        *)
(* anything and no initialize() begins.                                       *)
C19_ReconnectUnlessShutdown ==
  /\ [][/\ \A key \in SubscriptionKeys :
            (SubscriptionCloses(key) /\ sub.isEnabled /\ ~sub.isShuttingDown) =>
              sub'.timers = sub.timers + 1
        /\ sub.isShuttingDown =>
              /\ sub'.inits <= sub.inits
              /\ sub'.timers <= sub.timers
              /\ sub'.scheduled = sub.scheduled]_vars
  /\ \A n \in 1..MaxReconnects :
       (sub.scheduled >= n) ~> (sub.isShuttingDown \/ sub.inited >= n + 1)

(* two reconnects were scheduled and both re-initializations have run, with  *)
(* no shutdown                                                                *)
C19_Reconnected ==
  /\ sub # << >>
  /\ ~sub.isShuttingDown
  /\ sub.scheduled = MaxReconnects
  /\ sub.inited = MaxReconnects + 1
  /\ DOMAIN sub.subscriptions = SubscriptionKeys

(* C20: once shutdown() has been called the service stays shut down, and at  *)
(* every later moment, whatever timers were pending and whatever              *)
(* initialize() was waiting at its await, the subscriptions table and the     *)
(* connections table are empty: no subscription is opened.                    *)
C20_ClosedIsTerminal ==
  /\ [](sub # << >> /\ sub.isShuttingDown =>
          sub.subscriptions = NoSubscriptions /\ sub.connections = {})
  /\ [][sub.isShuttingDown => sub'.isShuttingDown]_vars

(* shutdown came while an initialize() was waiting at its await, with a      *)
(* reconnect timer pending as well, and both have since run                   *)
C20_InFlightInitializeRan ==
  /\ sub # << >>
  /\ sub.isShuttingDown
  /\ sub.scheduled = MaxReconnects
  /\ sub.timers = 0 /\ sub.inits = 0
  /\ sub.inited = MaxReconnects

-----------------------------------------------------------------------------
(* The invalidation subscriber's handlers                                   *)

(* C21: when the cache write or delete of a handler throws, the handler      *)
(* ends in its catch block: the subscriptions stay as they are, no reconnect  *)
(* is scheduled, no cache changes; and a subscription that is open goes on    *)
(* handling events afterwards.                                                *)
C21_HandlerErrorsCaught ==
  /\ [][\A key \in SubscriptionKeys, e \in SubscriberEvents :
          SubscriptionEventFails(key, e) =>
            /\ sub'.subscriptions = sub.subscriptions
            /\ sub'.timers = sub.timers /\ sub'.scheduled = sub.scheduled
            /\ sub'.inits = sub.inits
            /\ caches' = caches]_vars
  /\ [](\A key \in SubscriptionKeys :
          (Subscribed(key) /\ sub.caught) =>
            ENABLED (\E e \in SubscriberEvents : SubscriptionEvent(key, e)))

(* a handler's catch block has run, all three subscriptions are open, no     *)
(* reconnect was scheduled, and the paths cache holds a subscriber's write    *)
C21_HandledAfterError ==
  /\ sub # << >>
  /\ sub.caught
  /\ \A key \in SubscriptionKeys : Subscribed(key)
  /\ sub.scheduled = 0
  /\ caches.paths # EmptyCache

(* C22: a subscriber constructed with real-time invalidation disabled never  *)
(* records a relay connection, never holds a subscription, never has an       *)
(* initialize() running or finished, and writes to no cache.                  *)
C22_DisabledStaysDisabled ==
  (sub # << >> /\ ~sub.isEnabled) =>
    /\ sub.connections = {}
    /\ sub.subscriptions = NoSubscriptions
    /\ sub.inits = 0 /\ sub.inited = 0
    /\ caches = NoCaches

(* a disabled subscriber has been shut down *)
C22_DisabledShutDown ==
  sub # << >> /\ ~sub.isEnabled /\ sub.isShuttingDown

(***************************************************************************)
(* BlossomHelper.fetchFile: the content cache is the legacy MemoryCache     *)
(* fileContentCache, held in mem; fetch is one call, the requests it has    *)
(* made, and for every hash the latest bytes an upstream server returned.   *)
(***************************************************************************)
Hashes == {"h1", "h2", "h3"}

(* server lists as parsed from "server" tags: order kept, repeats kept *)
ServerLists ==
  {<< >>, <<"https://b1">>, <<"https://b1", "https://b2">>,
   <<"https://b2", "https://b1">>, <<"https://b1", "https://b1">>}

PathHints == {"", "/a.css"}

Bodies == {"B1", "B2"}

(* what one GET <server>/<sha256> comes to: a 200 with a body, or one of    *)
(* the errors fetchFromServer rethrows                                      *)
Failures == {"404", "413"}

Outcomes == {"200"} \cup Failures

CandidatesOrDefault(servers) ==
  IF servers = << >> THEN <<"https://b1">> ELSE servers

(* the servers the loop iterates: the list as passed, nothing added *)
Candidates(servers) == servers

FileKeyWithPath(sha256, path) == "file:" \o sha256 \o path

FileKey(sha256, path) == "file:" \o sha256

MemStored(m, key, value, ttl) ==
  [cache |-> MemPut(MemMakeRoom(m.cache),
                    [key |-> key, data |-> value, timestamp |-> now, ttl |-> ttl]),
   op |-> "set", got |-> << >>, had |-> FALSE, dropped |-> FALSE,
   evicted |-> IF Len(MemMakeRoom(m.cache)) < Len(MemCleanupMap(m.cache))
               THEN <<MemCleanupMap(m.cache)[1].key>> ELSE << >>]

MemRead(m, key) ==
  [cache |-> MemAfterRead(m.cache, key), op |-> "get",
   got |-> MemGetValue(m.cache, key), had |-> FALSE,
   dropped |-> MemAfterRead(m.cache, key) # m.cache, evicted |-> << >>]

NothingFetched == [h \in Hashes |-> << >>]

IdleFetch ==
  [pc |-> "idle", sha256 |-> "h1", servers |-> << >>, path |-> "", i |-> 1,
   requests |-> << >>, result |-> << >>, hit |-> FALSE, writes |-> 0,
   t0 |-> 0, known |-> << >>, fetched |-> NothingFetched]

(* the upstream bytes remembered for each hash, after a set() that made     *)
(* room by evicting the entries named in evicted                           *)
Remember(fetched, sha256, body, evicted) ==
  [h \in Hashes |->
     IF h = sha256 THEN <<[content |-> body, at |-> now, evicted |-> FALSE]>>
     ELSE IF fetched[h] # << >> /\ \E p \in PathHints : <<FileKey(h, p)>> = evicted
          THEN <<[fetched[h][1] EXCEPT !.evicted = TRUE]>>
          ELSE fetched[h]]

(* fetchFile up to its first await: the cache lookup, the return on a hit,  *)
(* and the return of null when the loop has no server to try                *)
FetchFile(sha256, servers, path) ==
  /\ fetch # << >> /\ fetch.pc = "idle"
  /\ mem' = MemRead(mem, FileKey(sha256, path))
  /\ LET cached == MemGetValue(mem.cache, FileKey(sha256, path))
     IN fetch' = [fetch EXCEPT
          !.sha256 = sha256, !.servers = servers, !.path = path, !.i = 1,
          !.requests = << >>, !.writes = 0,
          !.t0 = now, !.known = fetch.fetched[sha256],
          !.hit = cached # << >>,
          !.result = cached,
          !.pc = IF cached # << >> \/ Candidates(servers) = << >>
                 THEN "done" ELSE "loop"]
  /\ UNCHANGED <<req, engine, now, mgr, pool, query, sub>>

StopsAt413(f, outcome) ==
  [f EXCEPT !.requests = Append(f.requests, [server |-> Candidates(f.servers)[f.i],
                                              outcome |-> outcome, body |-> ""]),
            !.i = f.i + 1,
            !.pc = IF f.i = Len(Candidates(f.servers)) \/ outcome = "413" THEN "done" ELSE "loop"]

(* the catch block of the loop: log, continue with the next server *)
Continue(f, outcome) ==
  [f EXCEPT !.requests = Append(f.requests, [server |-> Candidates(f.servers)[f.i],
                                              outcome |-> outcome, body |-> ""]),
            !.i = f.i + 1,
            !.pc = IF f.i = Len(Candidates(f.servers)) THEN "done" ELSE "loop"]

StoresAnyAnswer(outcome) == outcome \in {"200", "404"}

(* fetchFromServer returned a result *)
Succeeds(outcome) == outcome = "200"

(* one turn of the loop: the request to servers[i] settles *)
FetchFromServer(outcome, body) ==
  /\ fetch # << >> /\ fetch.pc = "loop"
  /\ IF Succeeds(outcome)
     THEN /\ mem' = MemStored(mem, FileKey(fetch.sha256, fetch.path), body,
                              FileContentCacheTtl)
          /\ fetch' = [fetch EXCEPT
               !.requests = Append(fetch.requests,
                                   [server |-> Candidates(fetch.servers)[fetch.i],
                                    outcome |-> outcome, body |-> body]),
               !.result = <<body>>, !.writes = fetch.writes + 1, !.pc = "done",
               !.fetched = Remember(fetch.fetched, fetch.sha256, body,
                                   MemStored(mem, FileKey(fetch.sha256, fetch.path), body,
                                             FileContentCacheTtl).evicted)]
     ELSE /\ fetch' = Continue(fetch, outcome)
          /\ mem' = mem
  /\ UNCHANGED <<req, engine, now, mgr, pool, query, sub>>

(* the promise settles and the caller has the result *)
FetchReturns ==
  /\ fetch # << >> /\ fetch.pc = "done"
  /\ fetch' = [IdleFetch EXCEPT !.fetched = fetch.fetched]
  /\ UNCHANGED <<mem, req, engine, now, mgr, pool, query, sub>>

(* the upstream bytes still within their TTL at time t *)
StillFresh(fetched, t) ==
  [h \in Hashes |->
     IF fetched[h] # << >> /\ t - fetched[h][1].at > FileContentCacheTtl
     THEN << >> ELSE fetched[h]]

FetchTick ==
  /\ fetch # << >> /\ fetch.pc # "done"
  /\ now < MaxTime
  /\ now' = now + 1
  /\ fetch' = [fetch EXCEPT !.fetched = StillFresh(fetch.fetched, now + 1)]
  /\ UNCHANGED <<mem, req, engine, mgr, pool, query, sub>>

InitFetch ==
  /\ now = 0
  /\ slidingExpiration = FALSE
  /\ caches = NoCaches
  /\ published = {} /\ relayLists = {} /\ serverLists = {}
  /\ calls = [c \in {} |-> IdleCall]
  /\ mem = [cache |-> << >>, op |-> "", got |-> << >>, had |-> FALSE,
            dropped |-> FALSE, evicted |-> << >>]
  /\ mgr = << >> /\ pool = << >> /\ query = << >> /\ sub = << >> /\ req = << >>
  /\ fetch = IdleFetch

(* the servers' side: every list, every answer, two files *)
NextFetch ==
  \/ \E sha256 \in {"h1", "h2"}, servers \in ServerLists :
       FetchFile(sha256, servers, "")
  \/ \E outcome \in Outcomes, body \in Bodies : FetchFromServer(outcome, body)
  \/ FetchReturns
  \/ fetch.pc # "done" /\ MemCleanup
  \/ FetchTick

SpecFetch == InitFetch /\ [][NextFetch]_vars

(* the cache's side: every file under every path hint, one server or none *)
NextContent ==
  \/ \E sha256 \in Hashes, servers \in {<< >>, <<"https://b1">>}, path \in PathHints :
       FetchFile(sha256, servers, path)
  \/ \E outcome \in Outcomes, body \in Bodies : FetchFromServer(outcome, body)
  \/ FetchReturns
  \/ fetch.pc # "done" /\ MemCleanup
  \/ FetchTick

SpecContent == InitFetch /\ [][NextContent]_vars

(* C23: on a content-cache miss the requests fetchFile has made are the     *)
(* servers of its list in order, one request per position; every request    *)
(* but the last failed; the call is finished exactly when a server answered *)
(* 200, and then it returns that server's bytes, or when every server has   *)
(* failed, and then it returns absent; it has no other way to end.          *)
C23_InOrderUntilFirst200 ==
  (fetch # << >> /\ fetch.pc # "idle" /\ ~fetch.hit) =>
    /\ fetch.pc \in {"loop", "done"}
    /\ Len(fetch.requests) <= Len(fetch.servers)
    /\ \A k \in 1..Len(fetch.requests) :
         /\ fetch.requests[k].server = fetch.servers[k]
         /\ k < Len(fetch.requests) => fetch.requests[k].outcome \in Failures
    /\ LET n == Len(fetch.requests)
           answered == n > 0 /\ fetch.requests[n].outcome = "200"
       IN /\ fetch.pc = "loop" => ~answered /\ n < Len(fetch.servers)
          /\ fetch.pc = "done" =>
               IF answered THEN fetch.result = <<fetch.requests[n].body>>
               ELSE n = Len(fetch.servers) /\ fetch.result = << >>

(* the first server answered 413, the second 200, and its bytes were returned *)
C23_SecondServerAnswered ==
  /\ fetch # << >> /\ fetch.pc = "done" /\ ~fetch.hit
  /\ Len(fetch.requests) = 2
  /\ fetch.requests[1].outcome = "413"
  /\ fetch.requests[2].outcome = "200"
  /\ fetch.result = <<fetch.requests[2].body>>

Entries(cache) == {cache[k] : k \in 1..Len(cache)}

(* C24: a call in which every server failed returns absent and has written  *)
(* nothing; a step puts an entry into the content cache only when it is the *)
(* step that ends a call with a server's 200, and it is that call's only    *)
(* write; a failed request leaves the cache as it was.                      *)
C24_WrittenOnlyOnSuccess ==
  /\ [](fetch # << >> /\ fetch.pc = "done" =>
          /\ fetch.result = << >> => fetch.writes = 0
          /\ fetch.hit => fetch.writes = 0
          /\ (fetch.result # << >> /\ ~fetch.hit) => fetch.writes = 1)
  /\ [][(fetch # << >> /\ fetch' # << >>) =>
          /\ ~(Entries(mem'.cache) \subseteq Entries(mem.cache)) =>
               /\ fetch.pc = "loop" /\ fetch'.pc = "done"
               /\ fetch'.requests[Len(fetch'.requests)].outcome = "200"
               /\ fetch'.result # << >>
               /\ fetch.writes = 0 /\ fetch'.writes = 1
          /\ (fetch.pc = "loop" /\ fetch'.requests # fetch.requests
              /\ fetch'.requests[Len(fetch'.requests)].outcome \in Failures) =>
               mem'.cache = mem.cache]_vars

(* both servers answered 404 and the call returned absent, while the cache  *)
(* still holds the one file an earlier call stored                          *)
C24_AllServersFailed ==
  /\ fetch # << >> /\ fetch.pc = "done" /\ ~fetch.hit
  /\ Len(fetch.requests) = 2
  /\ \A k \in 1..2 : fetch.requests[k].outcome = "404"
  /\ fetch.result = << >> /\ fetch.writes = 0
  /\ Len(mem.cache) = 1

(* C25, as stated: a finished call that was given an empty server list has  *)
(* returned absent, made no request and written nothing.                    *)
C25_EmptyListIsAbsent ==
  (fetch # << >> /\ fetch.pc = "done" /\ fetch.servers = << >>) =>
    fetch.result = << >> /\ fetch.requests = << >> /\ fetch.writes = 0

(* C25, amended: a call given an empty server list is finished by the step  *)
(* that starts it, having made no request and no write; it returns absent   *)
(* when the content cache has no live entry for the hash, and the cached    *)
(* bytes when it has one.                                                   *)
C25_EmptyListEndsAtLookup ==
  /\ [](fetch # << >> /\ fetch.pc # "idle" /\ fetch.servers = << >> =>
          /\ fetch.pc = "done"
          /\ fetch.requests = << >> /\ fetch.writes = 0
          /\ ~fetch.hit => fetch.result = << >>)
  /\ [][(fetch # << >> /\ fetch' # << >> /\ fetch'.servers = << >>
         /\ fetch'.pc # "idle") =>
          /\ Entries(mem'.cache) \subseteq Entries(mem.cache)
          /\ fetch'.result = MemGetValue(mem.cache, FileKey(fetch'.sha256, fetch'.path))
             \/ fetch' = fetch]_vars

(* a call with an empty list missed the cache, which holds another file,    *)
(* and returned absent                                                      *)
C25_EmptyListMissed ==
  /\ fetch # << >> /\ fetch.pc = "done" /\ fetch.servers = << >>
  /\ ~fetch.hit /\ fetch.result = << >>
  /\ fetch.fetched[fetch.sha256] = << >>
  /\ mem.cache # << >>

(* C26, as stated: a call started within the content TTL of the latest      *)
(* successful upstream fetch of its hash is a cache hit: the same bytes and *)
(* no request.                                                              *)
C26_SameBytesUntilTtl ==
  (fetch # << >> /\ fetch.pc # "idle" /\ fetch.known # << >>
   /\ fetch.t0 - fetch.known[1].at <= FileContentCacheTtl) =>
    /\ fetch.hit /\ fetch.requests = << >>
    /\ fetch.result = <<fetch.known[1].content>>

(* C26, amended: the same, for an entry that no later set() has evicted to  *)
(* keep the cache within its size bound.                                    *)
C26_SameBytesUntilTtlOrEviction ==
  (fetch # << >> /\ fetch.pc # "idle" /\ fetch.known # << >>
   /\ fetch.t0 - fetch.known[1].at <= FileContentCacheTtl
   /\ ~fetch.known[1].evicted) =>
    /\ fetch.hit /\ fetch.requests = << >> /\ fetch.writes = 0
    /\ fetch.result = <<fetch.known[1].content>>

(* a hit on bytes fetched earlier, by a call with another path hint and an  *)
(* empty server list, at the last instant of the TTL                        *)
C26_HitUnderAnotherPath ==
  /\ fetch # << >> /\ fetch.pc = "done" /\ fetch.hit
  /\ fetch.known # << >> /\ ~fetch.known[1].evicted
  /\ fetch.t0 - fetch.known[1].at = FileContentCacheTtl
  /\ fetch.path = "/a.css" /\ fetch.servers = << >>
  /\ fetch.result = <<fetch.known[1].content>>

(***************************************************************************)
(* BlossomHelper.fixMimeType.  A path is the list of pieces that            *)
(* path.split('.') gives ("/a.css" is <<"/a", "css">>, "/about" is          *)
(* <<"/about">>, the empty path is <<"">>); a content is its first bytes    *)
(* and the set of text patterns the decoded first kilobyte matches.         *)
(***************************************************************************)
MimePaths ==
  {<<"">>, <<"/about">>, <<"/a", "">>, <<"/v1", "2/readme">>,
   <<"/index", "html">>, <<"/a", "css">>, <<"/A", "CSS">>, <<"/app", "js">>,
   <<"/data", "json">>, <<"/img", "png">>, <<"/f", "woff">>, <<"/doc", "pdf">>,
   <<"/a", "tar", "gz">>}

ServerContentTypes ==
  {"text/css", "Text/CSS", "text/css; charset=utf-8", "text/html", "text/plain",
   "application/json", "application/octet-stream", "text/javascript",
   "image/png", "application/font-woff"}

MimeContents ==
  {[bytes |-> << >>, matches |-> {}],
   [bytes |-> <<98, 111, 100, 121>>, matches |-> {"css", "js"}],
   [bytes |-> <<60, 104, 116, 109>>, matches |-> {"html", "xml"}],
   [bytes |-> <<123, 34, 97, 34>>, matches |-> {"json", "js"}],
   [bytes |-> <<137, 80, 78, 71>>, matches |-> {}],
   [bytes |-> <<104, 105>>, matches |-> {}]}

(* String.prototype.toLowerCase on the strings above *)
ToLowerCase(s) ==
  CASE s = "CSS" -> "css"
    [] s = "/A" -> "/a"
    [] s = "Text/CSS" -> "text/css"
    [] OTHER -> s

(* path.toLowerCase().split('.').pop() *)
Ext(path) == ToLowerCase(path[Len(path)])

CriticalExtensions ==
  {"html", "htm", "css", "js", "json", "xml", "png", "jpg", "jpeg", "gif", "svg",
   "ico", "woff", "woff2", "ttf", "eot"}

IncorrectMimeTypes ==
  {"application/json", "text/plain", "application/octet-stream",
   "binary/octet-stream", "text/html"}

MimeTypeMap(extension) ==
  CASE extension \in {"html", "htm"} -> {"text/html"}
    [] extension = "css" -> {"text/css"}
    [] extension = "js" -> {"application/javascript", "text/javascript"}
    [] extension = "json" -> {"application/json"}
    [] extension = "xml" -> {"text/xml", "application/xml"}
    [] extension = "png" -> {"image/png"}
    [] extension \in {"jpg", "jpeg"} -> {"image/jpeg"}
    [] extension = "gif" -> {"image/gif"}
    [] extension = "svg" -> {"image/svg+xml"}
    [] extension = "ico" -> {"image/x-icon", "image/vnd.microsoft.icon"}
    [] extension = "woff" -> {"font/woff", "application/font-woff"}
    [] extension = "woff2" -> {"font/woff2", "application/font-woff2"}
    [] extension = "ttf" -> {"font/ttf", "application/font-ttf"}
    [] extension = "eot" -> {"application/vnd.ms-fontobject"}
    [] OTHER -> {}

IsMimeTypeCorrectForExtension(mimeType, extension) ==
  IF MimeTypeMap(ToLowerCase(extension)) # {}
  THEN ToLowerCase(mimeType) \in MimeTypeMap(ToLowerCase(extension))
  ELSE TRUE

StartsWith(bytes, signature) ==
  /\ Len(bytes) >= Len(signature)
  /\ \A k \in 1..Len(signature) : bytes[k] = signature[k]

ValidateContentMatchesExtension(content, extension) ==
  IF content.bytes = << >> THEN FALSE
  ELSE LET ext == ToLowerCase(extension)
       IN CASE ext \in {"html", "htm"} -> "html" \in content.matches
            [] ext \in {"css", "js", "json", "xml", "svg"} -> ext \in content.matches
            [] ext = "png" -> StartsWith(content.bytes, <<137, 80, 78, 71>>)
            [] ext \in {"jpg", "jpeg"} -> StartsWith(content.bytes, <<255, 216, 255>>)
            [] ext = "gif" -> \/ StartsWith(content.bytes, <<71, 73, 70, 56, 55>>)
                              \/ StartsWith(content.bytes, <<71, 73, 70, 56, 57>>)
            [] OTHER -> TRUE

(* mimeTypes.lookup(path), then the switch on the extension: the two agree  *)
(* on the extensions of MimePaths                                           *)
GetContentTypeFromPath(path) ==
  IF path = <<"">> THEN "application/octet-stream"
  ELSE CASE Ext(path) \in {"html", "htm"} -> "text/html"
         [] Ext(path) = "css" -> "text/css"
         [] Ext(path) = "js" -> "application/javascript"
         [] Ext(path) = "json" -> "application/json"
         [] Ext(path) = "png" -> "image/png"
         [] Ext(path) \in {"jpg", "jpeg"} -> "image/jpeg"
         [] Ext(path) = "gif" -> "image/gif"
         [] Ext(path) = "svg" -> "image/svg+xml"
         [] Ext(path) = "woff" -> "font/woff"
         [] Ext(path) = "woff2" -> "font/woff2"
         [] Ext(path) = "ttf" -> "font/ttf"
         [] Ext(path) = "eot" -> "application/vnd.ms-fontobject"
         [] Ext(path) = "pdf" -> "application/pdf"
         [] Ext(path) = "xml" -> "application/xml"
         [] Ext(path) = "gz" -> "application/gzip"
         [] OTHER -> "application/octet-stream"

FixMimeTypeUnvalidated(serverContentType, path, content) ==
  IF path = <<"">> \/ Ext(path) = "" \/ Ext(path) \notin CriticalExtensions
  THEN serverContentType
  ELSE IF \/ serverContentType \in IncorrectMimeTypes
          \/ ~IsMimeTypeCorrectForExtension(serverContentType, Ext(path))
       THEN GetContentTypeFromPath(path)
       ELSE serverContentType

FixMimeType(serverContentType, path, content) ==
  IF path = <<"">> THEN serverContentType
  ELSE IF Ext(path) = "" THEN serverContentType
  ELSE IF Ext(path) \notin CriticalExtensions THEN serverContentType
  ELSE IF /\ \/ serverContentType \in IncorrectMimeTypes
             \/ ~IsMimeTypeCorrectForExtension(serverContentType, Ext(path))
          /\ ValidateContentMatchesExtension(content, Ext(path))
       THEN GetContentTypeFromPath(path)
       ELSE serverContentType

(* fetchFromServer has the answer's declared type and settles the type of   *)
(* the result                                                               *)
FixesMimeType ==
  /\ fetch # << >> /\ fetch.pc = "declared"
  /\ fetch' = [fetch EXCEPT
       !.pc = "typed",
       !.contentType = <<FixMimeType(fetch.serverContentType, fetch.path, fetch.content)>>]
  /\ UNCHANGED <<mem, req, engine, now, mgr, pool, query, sub>>

InitMime ==
  /\ now = 0
  /\ slidingExpiration = FALSE
  /\ caches = NoCaches
  /\ published = {} /\ relayLists = {} /\ serverLists = {}
  /\ calls = [c \in {} |-> IdleCall]
  /\ mem = << >> /\ mgr = << >> /\ pool = << >> /\ query = << >> /\ sub = << >>
  /\ req = << >>
  /\ \E serverContentType \in ServerContentTypes, path \in MimePaths,
        content \in MimeContents :
       fetch = [pc |-> "declared", serverContentType |-> serverContentType,
                path |-> path, content |-> content, contentType |-> << >>]

NextMime == FixesMimeType

SpecMime == InitMime /\ [][NextMime]_vars

(* C27: the type fixMimeType returns is the canonical type of the path's    *)
(* extension when the extension is critical, the declared type is a         *)
(* known-bad one or not among those allowed for the extension, and the      *)
(* content check corroborates the extension; otherwise, and whenever the    *)
(* path has no extension or a non-critical one, it is the declared type.    *)
C27_RewrittenWhenCorroborated ==
  (fetch # << >> /\ fetch.pc = "typed") =>
    LET hasExtension == Len(fetch.path) > 1 /\ fetch.path[Len(fetch.path)] # ""
        ext == ToLowerCase(fetch.path[Len(fetch.path)])
        rewrite ==
          /\ hasExtension /\ ext \in CriticalExtensions
          /\ \/ fetch.serverContentType \in IncorrectMimeTypes
             \/ ToLowerCase(fetch.serverContentType) \notin MimeTypeMap(ext)
          /\ ValidateContentMatchesExtension(fetch.content, ext)
    IN fetch.contentType =
         <<IF rewrite THEN GetContentTypeFromPath(fetch.path)
           ELSE fetch.serverContentType>>

(* a .css file declared application/json whose body reads as CSS has been   *)
(* given text/css                                                           *)
C27_CssServedAsJson ==
  /\ fetch # << >> /\ fetch.pc = "typed"
  /\ fetch.path = <<"/a", "css">>
  /\ fetch.serverContentType = "application/json"
  /\ "css" \in fetch.content.matches
  /\ fetch.contentType = <<"text/css">>

(***************************************************************************)
(* The request handler, app.get('*'), up to its first await.  A path is    *)
(* the sequence of its characters; req.path always begins with "/".        *)
(***************************************************************************)
MaxPathLen == 4

PathChars == {"a", ".", "/"}

RequestPaths ==
  {<<"/">> \o tail : tail \in UNION {[1..n -> PathChars] : n \in 0..MaxPathLen}}

Hostnames == {"base", "npub", "other"}

IndexHtml == <<"i", "n", "d", "e", "x", ".", "h", "t", "m", "l">>

(* String.prototype.endsWith and includes, for one character *)
EndsWith(path, char) == path # << >> /\ path[Len(path)] = char

Includes(path, char) == \E k \in 1..Len(path) : path[k] = char

NormalizedPath(requestPath) ==
  IF EndsWith(requestPath, "/") THEN requestPath \o IndexHtml
  ELSE IF ~Includes(requestPath, ".") THEN requestPath \o <<"/">> \o IndexHtml
  ELSE requestPath

(* the base domain gets the landing page, a hostname that is no npub        *)
(* subdomain a 404, and an npub subdomain goes on to resolve its path       *)
HandleRequest ==
  /\ req # << >> /\ req.pc = "received"
  /\ req' = CASE req.hostname = "base" ->
                   [req EXCEPT !.pc = "sent", !.status = 200]
              [] req.hostname = "other" ->
                   [req EXCEPT !.pc = "sent", !.status = 404]
              [] OTHER ->
                   [req EXCEPT !.pc = "resolving",
                               !.normalizedPath = <<NormalizedPath(req.requestPath)>>]
  /\ UNCHANGED <<fetch, mem, engine, now, mgr, pool, query, sub>>

InitRequest ==
  /\ now = 0
  /\ slidingExpiration = FALSE
  /\ caches = NoCaches
  /\ published = {} /\ relayLists = {} /\ serverLists = {}
  /\ calls = [c \in {} |-> IdleCall]
  /\ mem = << >> /\ mgr = << >> /\ pool = << >> /\ query = << >> /\ sub = << >>
  /\ fetch = << >>
  /\ \E hostname \in Hostnames, requestPath \in RequestPaths :
       req = [pc |-> "received", hostname |-> hostname, requestPath |-> requestPath,
              normalizedPath |-> << >>, status |-> 0]

NextRequest == HandleRequest

SpecRequest == InitRequest /\ [][NextRequest]_vars

(* the characters after the last "/" *)
LastSegment(path) ==
  LET slashes == {k \in 1..Len(path) : path[k] = "/"}
      last == CHOOSE k \in slashes : \A j \in slashes : j <= k
  IN SubSeq(path, last + 1, Len(path))

(* C28: the path a request is resolved under is the request path with       *)
(* index.html appended when it ends with "/", with /index.html appended     *)
(* when its last segment contains no ".", and the request path otherwise.   *)
C28_NormalizedByLastSegment ==
  (req # << >> /\ req.pc = "resolving") =>
    req.normalizedPath =
      <<IF EndsWith(req.requestPath, "/") THEN req.requestPath \o IndexHtml
        ELSE IF ~Includes(LastSegment(req.requestPath), ".")
             THEN req.requestPath \o <<"/">> \o IndexHtml
             ELSE req.requestPath>>

(***************************************************************************)
(* The Keyv options of AdvancedCacheManager: serialize and deserialize.     *)
(* A JavaScript value is a record [t, n, s, items]: t is its type, n the    *)
(* bytes of a Uint8Array or the one number, s the one string or the keys    *)
(* of an object, items the elements of an array or the values of an object. *)
(* A JSON text is represented by the value JSON.parse gives for it.         *)
(***************************************************************************)
MaxBytes == 2

Null == [t |-> "null", n |-> << >>, s |-> << >>, items |-> << >>]

Undefined == [t |-> "undefined", n |-> << >>, s |-> << >>, items |-> << >>]

Num(x) == [t |-> "number", n |-> <<x>>, s |-> << >>, items |-> << >>]

Str(x) == [t |-> "string", n |-> << >>, s |-> <<x>>, items |-> << >>]

Uint8Array(bytes) == [t |-> "Uint8Array", n |-> bytes, s |-> << >>, items |-> << >>]

Arr(items) == [t |-> "Array", n |-> << >>, s |-> << >>, items |-> items]

Obj(keys, items) == [t |-> "Object", n |-> << >>, s |-> keys, items |-> items]

ByteArrays == {Uint8Array(b) : b \in UNION {[1..k -> {0, 255}] : k \in 0..MaxBytes}}

(* byte arrays alone, and inside arrays and objects *)
ByteCarriers ==
  ByteArrays
    \cup {Arr(<<b>>) : b \in ByteArrays}
    \cup {Obj(<<"content">>, <<b>>) : b \in ByteArrays}
    \cup {Arr(<<Num(7), Obj(<<"k", "name">>, <<b, Str("a")>>)>>) : b \in ByteArrays}
    \cup {Obj(<<"list">>, <<Arr(<<b, Uint8Array(<<1>>)>>)>>) : b \in ByteArrays}

(* an object that is no byte array but has the shape of an encoded one *)
Lookalike == Obj(<<"__type", "data">>, <<Str("Uint8Array"), Arr(<<Num(1)>>)>>)

CodecValues == ByteCarriers \cup {Null, Num(7), Str("a"), Lookalike, Arr(<<Lookalike>>)}

(* obj[key] *)
Field(obj, key) ==
  IF obj.t = "Object" /\ \E k \in 1..Len(obj.s) : obj.s[k] = key
  THEN obj.items[CHOOSE k \in 1..Len(obj.s) : obj.s[k] = key]
  ELSE Undefined

(* the property names of a typed array: "0", "1", ... *)
IndexKey(k) == CASE k = 1 -> "0" [] k = 2 -> "1" [] k = 3 -> "2" [] OTHER -> "3"

RECURSIVE ToJson(_)
(* what JSON.stringify writes: a typed array as an object keyed by index,   *)
(* arrays and objects member by member                                      *)
ToJson(v) ==
  CASE v.t = "Uint8Array" ->
         Obj([k \in 1..Len(v.n) |-> IndexKey(k)], [k \in 1..Len(v.n) |-> Num(v.n[k])])
    [] v.t = "Array" -> Arr([k \in 1..Len(v.items) |-> ToJson(v.items[k])])
    [] v.t = "Object" -> Obj(v.s, [k \in 1..Len(v.items) |-> ToJson(v.items[k])])
    [] OTHER -> v

JsonStringify(v) == [t |-> "text", n |-> << >>, s |-> << >>, items |-> <<ToJson(v)>>]

JsonParse(text) == text.items[1]

EncodedAsIs(bytes) == bytes

(* { __type: 'Uint8Array', data: Array.from(data) } *)
Encoded(bytes) ==
  Obj(<<"__type", "data">>,
      <<Str("Uint8Array"), Arr([k \in 1..Len(bytes.n) |-> Num(bytes.n[k])])>>)

RECURSIVE SerializeWithUint8Array(_)
SerializeWithUint8Array(obj) ==
  CASE obj.t = "Uint8Array" -> Encoded(obj)
    [] obj.t = "Array" ->
         Arr([k \in 1..Len(obj.items) |-> SerializeWithUint8Array(obj.items[k])])
    [] obj.t = "Object" ->
         Obj(obj.s, [k \in 1..Len(obj.items) |-> SerializeWithUint8Array(obj.items[k])])
    [] OTHER -> obj

Serialize(data) ==
  IF data.t = "Uint8Array" THEN JsonStringify(Encoded(data))
  ELSE IF data.t \in {"Array", "Object"} THEN JsonStringify(SerializeWithUint8Array(data))
  ELSE JsonStringify(data)

(* obj && obj.__type === 'Uint8Array' && Array.isArray(obj.data) *)
IsEncoded(obj) ==
  Field(obj, "__type") = Str("Uint8Array") /\ Field(obj, "data").t = "Array"

(* new Uint8Array(obj.data) *)
Decoded(obj) ==
  LET data == Field(obj, "data").items
  IN Uint8Array([k \in 1..Len(data) |->
                   IF data[k].t = "number" THEN data[k].n[1] % 256 ELSE 0])

RECURSIVE DeserializeWithUint8Array(_)
DeserializeWithUint8Array(obj) ==
  IF IsEncoded(obj) THEN Decoded(obj)
  ELSE CASE obj.t = "Array" ->
              Arr([k \in 1..Len(obj.items) |-> DeserializeWithUint8Array(obj.items[k])])
         [] obj.t = "Object" ->
              Obj(obj.s, [k \in 1..Len(obj.items) |->
                            DeserializeWithUint8Array(obj.items[k])])
         [] OTHER -> obj

Deserialize(text) ==
  LET parsed == JsonParse(text)
  IN IF IsEncoded(parsed) THEN Decoded(parsed)
     ELSE IF parsed.t \in {"Array", "Object"} THEN DeserializeWithUint8Array(parsed)
     ELSE parsed

(* Keyv.set: the text stored for { value, expires } *)
KeyvStored(value, ttl) ==
  Serialize(Obj(<<"value", "expires">>, <<value, Num(now + ttl)>>))

(* getFileContent's last lines: a byte array as it is, an object of bytes   *)
(* converted, anything else null                                            *)
AsFileContent(cached) ==
  IF cached.t \in {"null", "undefined"} THEN Null
  ELSE IF cached.t = "Uint8Array" THEN cached
  ELSE IF /\ cached.t \in {"Array", "Object"}
          /\ \A k \in 1..Len(cached.items) : cached.items[k].t = "number"
       THEN Uint8Array([k \in 1..Len(cached.items) |-> cached.items[k].n[1]])
  ELSE Null

CodecSerializes ==
  /\ mgr # << >> /\ mgr.pc = "value"
  /\ mgr' = [mgr EXCEPT !.pc = "text", !.text = <<Serialize(mgr.value)>>]
  /\ UNCHANGED <<fetch, req, engine, now, mem, pool, query, sub>>

CodecDeserializes ==
  /\ mgr # << >> /\ mgr.pc = "text"
  /\ mgr' = [mgr EXCEPT !.pc = "back", !.back = <<Deserialize(mgr.text[1])>>]
  /\ UNCHANGED <<fetch, req, engine, now, mem, pool, query, sub>>

SetFileContent(content) ==
  /\ mgr # << >> /\ mgr.pc = "store"
  /\ mgr' = [mgr EXCEPT !.value = content, !.back = << >>,
                        !.text = <<KeyvStored(content, FileContentCacheTtl)>>]
  /\ UNCHANGED <<fetch, req, engine, now, mem, pool, query, sub>>

(* cache.get, the refresh of getWithSlidingExpiration when sliding          *)
(* expiration is on, and the conversion of the result                       *)
GetFileContent ==
  /\ mgr # << >> /\ mgr.pc = "store" /\ mgr.text # << >>
  /\ LET cached == Field(Deserialize(mgr.text[1]), "value")
     IN mgr' = [mgr EXCEPT
          !.text = IF slidingExpiration
                   THEN <<KeyvStored(cached, FileContentCacheTtl)>> ELSE @,
          !.back = <<AsFileContent(cached)>>]
  /\ UNCHANGED <<fetch, req, engine, now, mem, pool, query, sub>>

InitCodec ==
  /\ now = 0
  /\ slidingExpiration \in BOOLEAN
  /\ caches = NoCaches
  /\ published = {} /\ relayLists = {} /\ serverLists = {}
  /\ calls = [c \in {} |-> IdleCall]
  /\ mem = << >> /\ pool = << >> /\ query = << >> /\ sub = << >>
  /\ fetch = << >> /\ req = << >>
  /\ \/ \E value \in CodecValues :
          mgr = [pc |-> "value", value |-> value, text |-> << >>, back |-> << >>]
     \/ mgr = [pc |-> "store", value |-> Null, text |-> << >>, back |-> << >>]

NextCodec ==
  \/ CodecSerializes
  \/ CodecDeserializes
  \/ \E content \in ByteArrays : SetFileContent(content)
  \/ GetFileContent

SpecCodec == InitCodec /\ [][NextCodec]_vars

(* C29: a value made of byte arrays, alone or inside arrays and objects,    *)
(* comes back from deserialize(serialize(.)) equal to itself, each byte     *)
(* array a Uint8Array with the same bytes in the same order; and what       *)
(* getFileContent returns is the byte array the last setFileContent stored. *)
C29_BytesRoundTrip ==
  /\ (mgr # << >> /\ mgr.pc = "back" /\ mgr.value \in ByteCarriers) =>
        mgr.back = <<mgr.value>>
  /\ (mgr # << >> /\ mgr.pc = "store" /\ mgr.back # << >>) =>
        mgr.back = <<mgr.value>> /\ mgr.value.t = "Uint8Array"

(* two bytes inside an object inside an array have made the round trip *)
C29_NestedBytesBack ==
  /\ mgr # << >> /\ mgr.pc = "back"
  /\ mgr.value = Arr(<<Num(7), Obj(<<"k", "name">>, <<Uint8Array(<<0, 255>>), Str("a")>>)>>)
  /\ mgr.text # << >> /\ mgr.text[1] # JsonStringify(mgr.value)
  /\ mgr.back = <<mgr.value>>

(***************************************************************************)
(* CacheService.getCaches over AdvancedCacheManager.getCaches, await by     *)
(* await, under two callers.  mgr.sets are the sets of Keyv instances       *)
(* created so far, each with the store it was created over and, over the    *)
(* in-memory store, a Map of its own; mgr.backend is what the redis or      *)
(* sqlite database holds; mgr.serviceCaches is CacheService.caches (0 for   *)
(* null); mgr.handles counts the adapters constructed.                      *)
(***************************************************************************)
Clients == {"a", "b"}

StoredValues == {"v1", "v2"}

IdleCaller ==
  [pc |-> "idle", op |-> "", value |-> "", mine |-> 0, expect |-> << >>, got |-> << >>,
   known |-> FALSE]

(* another caller's set() has begun and not returned *)
SetInFlight(c) ==
  \E d \in Clients \ {c} : mgr.callers[d].pc # "idle" /\ mgr.callers[d].op = "set"

(* a CacheService operation up to its first await: getCaches() tests        *)
(* this.caches, initialize() tests this.initialized                         *)
BeginOperation(c, op, value) ==
  /\ mgr # << >> /\ mgr.callers[c].pc = "idle"
  /\ mgr' = [mgr EXCEPT !.callers =
       [d \in Clients |->
          IF d = c
          THEN [pc |-> IF mgr.serviceCaches # 0 THEN "op"
                       ELSE IF mgr.initialized THEN "create" ELSE "store",
                op |-> op, value |-> value, mine |-> mgr.serviceCaches,
                expect |-> IF op = "get" /\ ~SetInFlight(c) THEN mgr.lastSet ELSE << >>,
                known |-> op = "get" /\ ~SetInFlight(c),
                got |-> << >>]
          ELSE IF op = "set" /\ mgr.callers[d].pc # "idle"
               THEN [mgr.callers[d] EXCEPT !.known = FALSE]
               ELSE mgr.callers[d]]]
  /\ UNCHANGED <<fetch, req, engine, now, mem, pool, query, sub>>

(* initialize() after `await this.createStore()` *)
StoreCreated(c, opened) ==
  /\ mgr # << >> /\ mgr.callers[c].pc = "store"
  /\ mgr' = [mgr EXCEPT
       !.store = CreateStore(mgr.cachePath, opened),
       !.initialized = TRUE,
       !.handles = IF CreateStore(mgr.cachePath, opened) # "memory" THEN @ + 1 ELSE @,
       !.callers[c].pc = "create"]
  /\ UNCHANGED <<fetch, req, engine, now, mem, pool, query, sub>>

(* AdvancedCacheManager.getCaches after `await this.initialize()`: seven    *)
(* new Keyv instances over this.store                                       *)
CachesCreated(c) ==
  /\ mgr # << >> /\ mgr.callers[c].pc = "create"
  /\ mgr' = [mgr EXCEPT
       !.sets = Append(@, [store |-> mgr.store, map |-> << >>]),
       !.callers[c].mine = Len(mgr.sets) + 1,
       !.callers[c].pc = "assign"]
  /\ UNCHANGED <<fetch, req, engine, now, mem, pool, query, sub>>

(* CacheService.getCaches after its await: this.caches = ...; return it *)
CachesAssigned(c) ==
  /\ mgr # << >> /\ mgr.callers[c].pc = "assign"
  /\ mgr' = [mgr EXCEPT !.serviceCaches = mgr.callers[c].mine,
                        !.callers[c].pc = "op"]
  /\ UNCHANGED <<fetch, req, engine, now, mem, pool, query, sub>>

(* what a get of the key finds through the instances of set i *)
Held(m, i) == IF m.sets[i].store = "memory" THEN m.sets[i].map ELSE m.backend

(* the operation itself, on the caller's instances, and its return *)
Operate(c) ==
  /\ mgr # << >> /\ mgr.callers[c].pc = "op"
  /\ LET caller == mgr.callers[c]
     IN IF caller.op = "set"
        THEN mgr' = [mgr EXCEPT
               !.sets[caller.mine].map =
                  IF mgr.sets[caller.mine].store = "memory" THEN <<caller.value>> ELSE @,
               !.backend =
                  IF mgr.sets[caller.mine].store = "memory" THEN @ ELSE <<caller.value>>,
               !.lastSet = <<caller.value>>,
               !.callers = [d \in Clients |->
                  IF d = c THEN [caller EXCEPT !.pc = "idle"]
                  ELSE [mgr.callers[d] EXCEPT !.known = FALSE]]]
        ELSE mgr' = [mgr EXCEPT
               !.callers[c].got = Held(mgr, caller.mine),
               !.callers[c].pc = "idle"]
  /\ UNCHANGED <<fetch, req, engine, now, mem, pool, query, sub>>

InitInstances ==
  /\ now = 0
  /\ slidingExpiration = FALSE
  /\ caches = NoCaches
  /\ published = {} /\ relayLists = {} /\ serverLists = {}
  /\ calls = [c \in {} |-> IdleCall]
  /\ mem = << >> /\ pool = << >> /\ query = << >> /\ sub = << >>
  /\ fetch = << >> /\ req = << >>
  /\ \E cachePath \in CachePaths :
       mgr = [cachePath |-> cachePath, store |-> "", initialized |-> FALSE,
              handles |-> 0, sets |-> << >>, serviceCaches |-> 0,
              backend |-> << >>, lastSet |-> << >>,
              callers |-> [c \in Clients |-> IdleCaller]]

NextInstances ==
  \/ \E c \in Clients, value \in StoredValues : BeginOperation(c, "set", value)
  \/ \E c \in Clients : BeginOperation(c, "get", "")
  \/ \E c \in Clients, opened \in BOOLEAN : StoreCreated(c, opened)
  \/ \E c \in Clients : CachesCreated(c)
  \/ \E c \in Clients : CachesAssigned(c)
  \/ \E c \in Clients : Operate(c)

SpecInstances == InitInstances /\ [][NextInstances]_vars

(* C30: at most one backend adapter is ever constructed and at most one set *)
(* of namespace caches created, every operation runs on that set, and a get *)
(* that began after the latest set had returned, with no other set since,   *)
(* returns the value that set wrote.                                        *)
C30_OneSetOfCaches ==
  mgr # << >> =>
    /\ mgr.handles <= 1
    /\ Len(mgr.sets) <= 1
    /\ \A c \in Clients :
         /\ mgr.callers[c].pc = "op" => mgr.callers[c].mine = 1
         /\ (mgr.callers[c].pc = "idle" /\ mgr.callers[c].op = "get"
             /\ mgr.callers[c].known /\ mgr.callers[c].expect # << >>) =>
              mgr.callers[c].got = mgr.callers[c].expect

(* C31: in every state each filter has at most one live subscription, and    *)
(* it is the one the subscriptions table holds under the filter's key: no     *)
(* subscription that a relay has not closed is missing from the table.        *)
C31_OneSubscriptionPerFilter ==
  sub # << >> => \A key \in SubscriptionKeys : sub.orphans[key] = 0

(* C32: whenever a call of queryRelays has returned after subscribing, by any route including its timeout, the subscription it opened is closed: the call has run sub.close() or every relay has closed it. *)
C32_SubscriptionClosedAtEnd ==
  (query # << >> /\ query.pc = "resolved" /\ query.by \notin {"no active relay", "subscribeMany threw"})
    => (query.subClosed \/ \A r \in DOMAIN query.relay : query.relay[r] = "closed")

-----------------------------------------------------------------------------
(* What a resolver does with the array queryRelays returns.  The events of   *)
(* the array stand in the order in which onevent pushed them, which is the    *)
(* order in which the relays answered.  query.events is that array,           *)
(* query.kind the kind asked for, query.used the event the resolver parsed    *)
(* (<< >> if none) and query.result what it parsed out of it.                 *)

LookupPath == "/index.html"

(* the same event signed again one second later *)
Republished(e) == [e EXCEPT !.created_at = @ + 1]

(* the events the relays hold that match the lookup's filter *)
RelaysHold(kind) ==
  LET evs == IF kind = MAPPING_KIND
             THEN {e \in MappingEvents : MatchesMapping(e, "p1", LookupPath)}
             ELSE IF kind = RELAY_LIST_KIND THEN RelayListEvents ELSE ServerListEvents
  IN evs \cup {Republished(e) : e \in evs}

(* the arrays a query over two relays can return: each relay sends at most   *)
(* one matching event, in either order                                        *)
Arrivals(held) ==
  {<< >>} \cup {<<e>> : e \in held}
          \cup {<<p[1], p[2]>> : p \in {q \in held \X held : q[1] # q[2]}}

(* const event = events[0] *)
FirstEvent(events) == events[1]

(* what each resolver parses out of the event it uses *)
Parsed(kind, event) ==
  IF kind = MAPPING_KIND THEN <<FirstTagValue(event.tags, "x")>>
  ELSE IF kind = RELAY_LIST_KIND THEN FinalRelays(event.tags)
  ELSE FinalServers(event.tags)

QueryResult(kind, events) ==
  [pc |-> "queried", kind |-> kind, events |-> events, used |-> << >>, result |-> << >>]

(* events = await this.queryRelays(...) *)
QueryReturns(kind, events) ==
  /\ query.pc = "used"
  /\ query' = QueryResult(kind, events)
  /\ UNCHANGED <<fetch, req, engine, now, mem, mgr, pool, sub>>

(* if (events.length === 0) ...: the default list, or no mapping *)
UseDefaults ==
  /\ query.pc = "queried" /\ Len(query.events) = 0
  /\ query' = [query EXCEPT !.pc = "used",
        !.result = IF query.kind = MAPPING_KIND THEN << >>
                   ELSE IF query.kind = RELAY_LIST_KIND THEN DefaultRelays
                   ELSE DefaultBlossomServers]
  /\ UNCHANGED <<fetch, req, engine, now, mem, mgr, pool, sub>>

(* const event = events[0]; and the loop over event.tags *)
UseEvent ==
  /\ query.pc = "queried" /\ Len(query.events) > 0
  /\ query' = [query EXCEPT !.pc = "used", !.used = <<FirstEvent(query.events)>>,
        !.result = Parsed(query.kind, FirstEvent(query.events))]
  /\ UNCHANGED <<fetch, req, engine, now, mem, mgr, pool, sub>>

LookupKinds == {MAPPING_KIND, RELAY_LIST_KIND, SERVER_LIST_KIND}

InitArrival ==
  /\ now = 0
  /\ fetch = << >>
  /\ req = << >>
  /\ slidingExpiration = FALSE
  /\ caches = NoCaches
  /\ published = {} /\ relayLists = {} /\ serverLists = {}
  /\ calls = [c \in {} |-> IdleCall]
  /\ mem = << >>
  /\ mgr = << >>
  /\ pool = << >>
  /\ \E kind \in LookupKinds : \E events \in Arrivals(RelaysHold(kind)) :
       query = QueryResult(kind, events)
  /\ sub = << >>

NextArrival ==
  \/ \E kind \in LookupKinds : \E events \in Arrivals(RelaysHold(kind)) :
       QueryReturns(kind, events)
  \/ UseDefaults
  \/ UseEvent

(* SpecArrival: the three resolvers given every array two relays can return *)
SpecArrival == InitArrival /\ [][NextArrival]_vars

(* C33: whenever a resolver has parsed an event out of a query's result, for a path mapping, a relay list or a server list, that event has the greatest created_at of the events the query returned. *)
C33_UsesNewestEvent ==
  (query # << >> /\ query.pc = "used" /\ query.used # << >>)
    => \A i \in 1..Len(query.events) : query.events[i].created_at <= query.used[1].created_at

-----------------------------------------------------------------------------
(* NostrHelper.getActiveRelays over the connection table.  query.relays is   *)
(* the caller's array and query.activeRelays the array returned.              *)

PriorityRelays == {"wss://relay.primal.net", "wss://relay.damus.io", "wss://relay.nostr.band"}

ActiveRelayUrls == {"wss://relay.damus.io", "wss://r1", "wss://r2"}

(* the arrays a caller passes: up to three different relays in any order *)
RelayArrays ==
  {<< >>} \cup {<<a>> : a \in ActiveRelayUrls}
          \cup {<<p[1], p[2]>> : p \in {q \in ActiveRelayUrls \X ActiveRelayUrls : q[1] # q[2]}}
          \cup {<<p[1], p[2], p[3]>> :
                  p \in {q \in ActiveRelayUrls \X ActiveRelayUrls \X ActiveRelayUrls :
                           q[1] # q[2] /\ q[1] # q[3] /\ q[2] # q[3]}}

(* [...relays.filter(priorityRelays.includes), ...relays.filter(!priorityRelays.includes)] *)
SortedRelays(relays) ==
  SelectSeq(relays, LAMBDA r : r \in PriorityRelays)
    \o SelectSeq(relays, LAMBDA r : r \notin PriorityRelays)

(* ensureConnection's first branch: the record is connected and recent, and  *)
(* the call returns without an await of its own                               *)
Reuses(connections, relayUrl) ==
  /\ relayUrl \in DOMAIN connections
  /\ connections[relayUrl].isConnected
  /\ now - connections[relayUrl].lastUsed < WsConnectionTimeout

(* the order in which the callbacks of sortedRelays.map push: each resumes   *)
(* when its ensureConnection settles, which for a reused connection is one    *)
(* turn of the job queue earlier than for a new one (await connectionPromise) *)
PushOrder(connections, sorted) ==
  SelectSeq(sorted, LAMBDA r : Reuses(connections, r))
    \o SelectSeq(sorted, LAMBDA r : ~Reuses(connections, r))

(* getActiveRelays(relays): every relay ends with a connected record *)
GetActiveRelays(relays) ==
  /\ pool # << >>
  /\ LET urls == {relays[i] : i \in 1..Len(relays)}
     IN /\ pool' = [pool EXCEPT
               !.connections = [r \in DOMAIN @ \cup urls |->
                                  IF r \in urls THEN [lastUsed |-> now, isConnected |-> TRUE]
                                  ELSE @[r]],
               !.op = "getActiveRelays", !.batch = << >>, !.threw = FALSE]
        /\ query' = [relays |-> relays,
                     reused |-> {r \in urls : Reuses(pool.connections, r)},
                     activeRelays |-> PushOrder(pool.connections, SortedRelays(relays))]
  /\ UNCHANGED <<fetch, req, engine, now, mem, mgr, sub>>

InitActive ==
  /\ now = 0
  /\ fetch = << >>
  /\ req = << >>
  /\ slidingExpiration = FALSE
  /\ caches = NoCaches
  /\ published = {} /\ relayLists = {} /\ serverLists = {}
  /\ calls = [c \in {} |-> IdleCall]
  /\ mem = << >>
  /\ mgr = << >>
  /\ pool = [connections |-> NoConnections, timer |-> TRUE, op |-> "", batch |-> << >>,
             threw |-> FALSE]
  /\ query = [relays |-> << >>, reused |-> {}, activeRelays |-> << >>]
  /\ sub = << >>

NextActive ==
  \/ \E relays \in RelayArrays : GetActiveRelays(relays)
  \/ \E throws \in BOOLEAN : CleanupStaleConnections(throws)
  \/ Tick

(* SpecActive: calls of getActiveRelays, the janitor and the clock *)
SpecActive == InitActive /\ [][NextActive]_vars

(* C34: the array getActiveRelays returns holds the caller's relays with the priority relays before the others and, within each group, in the caller's order, whether the connections were reused or new. *)
C34_PriorityThenCallerOrder ==
  (query # << >> /\ pool # << >> /\ pool.op = "getActiveRelays")
    => query.activeRelays = SortedRelays(query.relays)

(* C35: every step of a getStaticFileMapping call keeps the order cache lookup, NegativeMark check, relay query: a live paths entry read at the lookup is what the call returns, whatever the negative cache holds; the NegativeMark is read only after a lookup that missed; a live NegativeMark read there ends the call with absent and no relay-list or mapping query made; relay lists and relays are asked only after a NegativeMark check that missed. *)
C35_LookupThenMarkThenQuery ==
  [][\A c \in DOMAIN calls :
       LET call == calls[c]
           after == calls'[c]
           key == PathKey(call.pubkey, call.path)
           mark == NegativeKey(call.pubkey, call.path)
       IN (call.op = "getStaticFileMapping" /\ after.pc # call.pc) =>
            /\ (call.pc = "m_get" /\ KeyvLive(caches.paths, key)) =>
                 \/ after.pc = "done" /\ after.result = <<caches.paths[key].value.sha256>>
                 \/ after.pc = "m_slide" /\ after.cached[1].value = caches.paths[key].value
            /\ call.pc = "m_slide" =>
                 after.pc = "done" /\ after.result = <<call.cached[1].value.sha256>>
            /\ (call.pc = "m_neg" /\ KeyvLive(caches.negative, mark)) =>
                 /\ after.pc = "done" /\ after.result = << >>
                 /\ after.rq = call.rq /\ after.mq = call.mq
            /\ after.pc = "m_neg" => call.pc = "m_get"
            /\ after.pc = "r_get" => call.pc = "m_neg"
            /\ (after.mq > call.mq \/ after.rq > call.rq) =>
                 call.pc \in {"r_query", "m_q1", "m_q2"}
    ]_vars

(* a call that found no paths entry and a live NegativeMark for its path has returned absent without a query *)
C35_MarkedAbsentUnqueried ==
  \E c \in DOMAIN calls :
    /\ calls[c].op = "getStaticFileMapping" /\ calls[c].pc = "done"
    /\ calls[c].atStart = << >> /\ calls[c].negAtStart
    /\ calls[c].result = << >> /\ calls[c].mq = 0 /\ calls[c].rq = 0 /\ calls[c].fb = 0

-----------------------------------------------------------------------------
(* The shape of what the two writers put into the paths cache.  The events   *)
(* here carry real strings: a digest of 64 lowercase hexadecimal characters,  *)
(* the same digest in upper case, a short string, a d tag without its slash.  *)

HexChars == {"0", "1", "2", "3", "4", "5", "6", "7", "8", "9", "a", "b", "c", "d", "e", "f"}

Digest == "0123456789abcdef0123456789abcdef0123456789abcdef0123456789abcdef"
UpperDigest == "0123456789ABCDEF0123456789ABCDEF0123456789ABCDEF0123456789ABCDEF"
ShortDigest == "0123abcd"

ShapeEvents ==
  { Ev("p1", MAPPING_KIND, 1, << <<"d", "/index.html">>, <<"x", Digest>> >>),
    Ev("p1", MAPPING_KIND, 1, << <<"d", "/index.html">>, <<"x", UpperDigest>> >>),
    Ev("p1", MAPPING_KIND, 1, << <<"d", "/404.html">>, <<"x", ShortDigest>> >>),
    Ev("p1", MAPPING_KIND, 1, << <<"d", "index.html">>, <<"x", Digest>> >>) }

(* path begins with / *)
BeginsWithSlash(path) == Len(path) >= 1 /\ SubSeq(path, 1, 1) = "/"

(* sha256 is 64 lowercase hexadecimal characters *)
IsSha256(sha256) ==
  Len(sha256) = 64 /\ \A i \in 1..64 : SubSeq(sha256, i, i) \in HexChars

InitShape ==
  /\ now = 0
  /\ slidingExpiration \in BOOLEAN
  /\ caches = NoCaches
  /\ published = ShapeEvents
  /\ relayLists = {}
  /\ serverLists = {}
  /\ calls = [c \in {"c1"} |-> IdleCall]
  /\ Dormant

NextShape ==
  \/ \E c \in DOMAIN calls, pk \in Pubkeys, p \in Paths : StartStaticFileMapping(c, pk, p)
  \/ \E c \in DOMAIN calls : ResolverStep(c)
  \/ \E e \in ShapeEvents : HandleStaticFileEvent(e)

(* SpecShape: one caller and the subscriber, the relays holding and sending  *)
(* events whose tags are well formed or not                                   *)
SpecShape == InitShape /\ [][NextShape]_vars

(* C36: every PathMapping in the paths cache, written by the resolver or by the invalidation subscriber, has a path that begins with / and a sha256 of 64 lowercase hexadecimal characters. *)
C36_WellFormedMappings ==
  \A key \in DOMAIN caches.paths :
    /\ BeginsWithSlash(caches.paths[key].value.path)
    /\ IsSha256(caches.paths[key].value.sha256)

-----------------------------------------------------------------------------
(* Relay-list events that name a relay more than once *)

RepeatingRelayLists ==
  { Ev("p1", RELAY_LIST_KIND, 1,
       << <<"r", "wss://u1", "read">>, <<"r", "wss://u2">>, <<"r", "wss://u1">> >>),
    Ev("p1", RELAY_LIST_KIND, 1,
       << <<"r", "wss://u2">>, <<"r", "wss://u2", "write">>, <<"r", "wss://u1", "read">> >>),
    Ev("p1", RELAY_LIST_KIND, 1, << <<"r", "wss://u1">>, <<"r", "wss://u1">> >>),
    Ev("p1", RELAY_LIST_KIND, 1, << <<"r", "wss://u2">>, <<"r", "wss://u1">> >>) }

InitRepeats ==
  /\ now = 0
  /\ slidingExpiration \in BOOLEAN
  /\ caches = NoCaches
  /\ published = {}
  /\ relayLists \in { {} } \cup { {e} : e \in RepeatingRelayLists }
  /\ serverLists = {}
  /\ calls = [c \in {"c1"} |-> IdleCall]
  /\ Dormant

NextRepeats ==
  \/ \E c \in DOMAIN calls, pk \in Pubkeys : StartRelayList(c, pk)
  \/ \E c \in DOMAIN calls : RGet(c) \/ RSlide(c) \/ RQuery(c) \/ RSet(c)
  \/ \E e \in RepeatingRelayLists : HandleRelayListEvent(e)

(* SpecRepeats: one caller asking for relay lists and the subscriber         *)
(* receiving relay-list events, some of which repeat a URL                    *)
SpecRepeats == InitRepeats /\ [][NextRepeats]_vars

(* C37: every relay list in the relays cache, written by the resolver or by the invalidation subscriber, names no URL twice. *)
C37_NoDuplicateRelay ==
  \A pk \in DOMAIN caches.relays :
    LET relays == caches.relays[pk].value
    IN \A i, j \in 1..Len(relays) : relays[i] = relays[j] => i = j

(* C38: no list stored in the relays or servers namespace is empty, and every call of getRelayList or getBlossomServers that has ended has returned a non-empty list, whether it met a cache hit, a miss or an error. *)
C38_ListsNeverEmpty ==
  /\ \A pk \in DOMAIN caches.relays : caches.relays[pk].value # << >>
  /\ \A pk \in DOMAIN caches.servers : caches.servers[pk].value # << >>
  /\ \A c \in DOMAIN calls :
       (calls[c].op \in {"getRelayList", "getBlossomServers"} /\ calls[c].pc \in {"done", "rejected"})
         => (calls[c].pc = "done" /\ calls[c].result # << >>)

(* C39: every entry of the paths cache stands under the key made of its own pubkey and path fields; and every write a resolver call makes to the paths cache goes to the key of the path it last queried, with that path in the entry, after the relays held an event for that path: a call that fell back to /404.html writes under pubkey‖/404.html only. *)
C39_StoredUnderOwnPath ==
  /\ [](\A key \in DOMAIN caches.paths :
          key = PathKey(caches.paths[key].value.pubkey, caches.paths[key].value.path))
  /\ [][\A c \in DOMAIN calls :
          (calls[c].pc = "m_set" /\ calls'[c].pc = "done") =>
            LET call == calls[c]
                key == PathKey(call.pubkey, call.path)
            IN /\ call.fb > 0 => (call.path = NotFoundPath /\ call.reqPath # NotFoundPath)
               /\ call.fb = 0 => call.path = call.reqPath
               /\ \A k \in (DOMAIN caches.paths \cup DOMAIN caches'.paths) \ {key} :
                    /\ k \in DOMAIN caches.paths /\ k \in DOMAIN caches'.paths
                    /\ caches'.paths[k] = caches.paths[k]
               /\ key \in DOMAIN caches'.paths
               /\ caches'.paths[key].value.path = call.path
               /\ \E e \in published : MatchesMapping(e, call.pubkey, call.path)
      ]_vars

(* a call for /index.html fell back to /404.html and stored the mapping it found under p1/404.html, leaving nothing under p1/index.html *)
C39_FallbackStoredUnder404 ==
  \E c \in DOMAIN calls :
    /\ calls[c].op = "getStaticFileMapping" /\ calls[c].pc = "done"
    /\ calls[c].reqPath = "/index.html" /\ calls[c].fb = 1 /\ calls[c].result # << >>
    /\ PathKey("p1", NotFoundPath) \in DOMAIN caches.paths
    /\ caches.paths[PathKey("p1", NotFoundPath)].by = "RV"
    /\ caches.paths[PathKey("p1", NotFoundPath)].value.path = NotFoundPath
    /\ PathKey("p1", "/index.html") \notin DOMAIN caches.paths

-----------------------------------------------------------------------------
(* CacheService.handleDomainAccess and touchRelatedCacheEntries.  The call   *)
(* keeps the domain in key; cached, found and pending are the locals          *)
(* domainValue, servers and relays, each the entry read or << >>.             *)

AccessDomain == "npub1.example"

AccessRelayLists == {UserRelayList, Ev("p1", RELAY_LIST_KIND, 1, << <<"r", "wss://d1">> >>)}

AccessServerLists ==
  {Ev("p1", SERVER_LIST_KIND, 1,
      << <<"server", "https://b1">>, <<"r", "https://b9">>, <<"server", "https://b2">> >>),
   Ev("p1", SERVER_LIST_KIND, 1, << >>)}

(* setPubkeyForDomain(domain, pubkey) *)
SetPubkeyForDomain(domain, pubkey) ==
  /\ caches' = [caches EXCEPT
       !.domains = KeyvSet(@, domain, pubkey, DefaultTtl("domains"), "", << >>, now)]
  /\ UNCHANGED <<components, now, slidingExpiration, published, relayLists, serverLists, calls>>

(* handleDomainAccess(domain, pubkey) up to the first await of               *)
(* touchRelatedCacheEntries: both return at once if sliding expiration is off *)
StartDomainAccess(c, domain, pubkey) ==
  /\ Free(c)
  /\ Begin(c, [IdleCall EXCEPT !.op = "handleDomainAccess", !.key = domain, !.pubkey = pubkey,
                               !.pc = IF slidingExpiration THEN "t_domain" ELSE "done"])
  /\ UNCHANGED <<components, now, slidingExpiration, caches, published, relayLists, serverLists>>

(* const domainValue = await caches.pubkeyDomains.get(domain) *)
TouchGetDomain(c) ==
  /\ calls[c].pc = "t_domain"
  /\ caches' = [caches EXCEPT !.domains = KeyvAfterGet(@, calls[c].key)]
  /\ calls' = [calls EXCEPT ![c] =
       [@ EXCEPT !.pc = "t_lists", !.cached = KeyvGet(caches.domains, calls[c].key)]]
  /\ UNCHANGED <<components, now, slidingExpiration, published, relayLists, serverLists>>

(* the set of the domain entry, begun before the two reads, and              *)
(* const [servers, relays] = await Promise.all([...get(pubkey), ...get(pubkey)]) *)
TouchGetLists(c) ==
  /\ calls[c].pc = "t_lists"
  /\ LET call == calls[c]
         touched == IF call.cached # << >>
                    THEN GwseRefresh(caches, "domains", call.key, call.cached[1], 0, << >>)
                    ELSE caches
     IN /\ caches' = [touched EXCEPT !.servers = KeyvAfterGet(@, call.pubkey),
                                     !.relays = KeyvAfterGet(@, call.pubkey)]
        /\ calls' = [calls EXCEPT ![c] =
             [call EXCEPT !.pc = "t_set", !.cached = << >>,
                          !.found = KeyvGet(caches.servers, call.pubkey),
                          !.pending = KeyvGet(caches.relays, call.pubkey)]]
  /\ UNCHANGED <<components, now, slidingExpiration, published, relayLists, serverLists>>

(* the sets of the servers and relays entries, and await Promise.all(operations) *)
TouchSet(c) ==
  /\ calls[c].pc = "t_set"
  /\ LET call == calls[c]
         withServers == IF call.found # << >>
                        THEN GwseRefresh(caches, "servers", call.pubkey, call.found[1], 0, << >>)
                        ELSE caches
     IN /\ caches' = IF call.pending # << >>
                     THEN GwseRefresh(withServers, "relays", call.pubkey, call.pending[1], 0, << >>)
                     ELSE withServers
        /\ calls' = [calls EXCEPT ![c] = [Return(call, << >>) EXCEPT !.found = << >>]]
  /\ UNCHANGED <<components, now, slidingExpiration, published, relayLists, serverLists>>

InitAccess ==
  /\ now = 0
  /\ slidingExpiration \in BOOLEAN
  /\ caches = NoCaches
  /\ published = {}
  /\ relayLists = {}
  /\ serverLists = {}
  /\ calls = [c \in {"c1"} |-> IdleCall]
  /\ Dormant

NextAccess ==
  \/ \E c \in DOMAIN calls : StartDomainAccess(c, AccessDomain, "p1")
  \/ \E c \in DOMAIN calls : TouchGetDomain(c)
  \/ \E c \in DOMAIN calls : TouchGetLists(c)
  \/ \E c \in DOMAIN calls : TouchSet(c)
  \/ SetPubkeyForDomain(AccessDomain, "p1")
  \/ \E e \in AccessRelayLists : HandleRelayListEvent(e)
  \/ \E e \in AccessServerLists : HandleBlossomServerEvent(e)
  \/ Tick

(* SpecAccess: handleDomainAccess called again and again while the           *)
(* subscriber and setPubkeyForDomain write the same entries and the clock runs *)
SpecAccess == InitAccess /\ [][NextAccess]_vars

(* C40: no step of a handleDomainAccess call creates a cache entry that was absent or changes a stored value, whatever the other writers do between its steps: with sliding expiration on a step at most resets the expiry of the live domain, servers and relays entries of the call's domain and pubkey, and with sliding expiration off it changes nothing. *)
C40_TouchOnlyResetsExpiry ==
  [][\A c \in DOMAIN calls :
       (calls'[c].op = "handleDomainAccess" /\ calls'[c].pc # calls[c].pc) =>
         \A ns \in Namespaces : \A k \in DOMAIN caches'[ns] :
           \/ k \in DOMAIN caches[ns] /\ caches'[ns][k] = caches[ns][k]
           \/ /\ slidingExpiration
              /\ KeyvLive(caches[ns], k)
              /\ caches'[ns][k].value = caches[ns][k].value
              /\ <<ns, k>> \in {<<"domains", calls'[c].key>>, <<"servers", calls'[c].pubkey>>,
                                <<"relays", calls'[c].pubkey>>}
    ]_vars

====
